---- MODULE Spec2Model ----
(***************************************************************************)
(* Verification model of the vigilant-golang telemetry agent: the batcher  *)
(* (src/batcher.go), the series-based metric collector                     *)
(* (src/metric_collector.go, lines 1-411) with its sender                  *)
(* (src/unnamed/part_008), the metric identifier, the metric sender on its *)
(* own (src/metric_sender.go and src/unnamed/part_008) and the             *)
(* registration handler (src/registration.go, lines 1-311).                *)
(*                                                                         *)
(* Go strings are sequences of one-character strings; float64 values are   *)
(* small integers (addition on them is exact); a Go map is a function on   *)
(* its key set; a buffered channel is a sequence bounded by its capacity.  *)
(***************************************************************************)
EXTENDS Integers, Sequences, FiniteSets, TLC

\* ------------------------------------------------------------------ bounds
\* capacity of the batcher's queue channels (1000 in src/batcher.go:39, scaled)
QueueCap == 2
\* flush threshold of the batcher loops (100 in src/batcher.go:93, scaled)
maxBatchSize == 3
\* number of non-nil messages the callers submit in one run
MaxItems == 4

Producers == {"p1", "p2"}
Nil == 0

\* ------------------------------------------------------------------ state
VARIABLES
    logQueue,     \* batcher.logQueue: the buffered channel, oldest first
    logs,         \* the local slice of runLogBatcher
    batchStop,    \* batcher.batchStop is closed
    loopPc,       \* runLogBatcher: "init" (not started), "run", "done" (wg.Done ran)
    stopPc,       \* batcher.stop: "idle", "wait" (in wg.Wait), "returned"
    prodPc,       \* per caller: "idle" or "blocked" (parked in the channel send)
    prodMsg,      \* per caller: the message of the parked send
    requests,     \* the HTTP requests issued so far, in order
    nextId,       \* the next message to be submitted (messages are numbered)
    accepted,     \* history: the messages whose submit call has returned, in order
    preStop       \* history: the set of accepted messages when stop() was called

batcherVars ==
    <<logQueue, logs, batchStop, loopPc, stopPc, prodPc, prodMsg, requests,
      nextId, accepted, preStop>>

VARIABLES
    counterSeries,    \* metricCollector.counterSeries: identifier -> series
    gaugeSeries,      \* metricCollector.gaugeSeries
    histogramSeries,  \* metricCollector.histogramSeries
    counterEvents,    \* the three event channels, oldest first
    gaugeEvents,
    histogramEvents,
    chanClosed,       \* the event channels are closed
    mux,              \* metricCollector.mux: "free" or the goroutine that holds it
    stopChan,         \* metricCollector.stopChan is closed
    stopped,          \* metricCollector.stopped
    consPc,           \* processEvents: "init", "run", "done"
    tickPc,           \* runTicker: "init", "timer", "ticker", "send", "done"
    tickPending,      \* the snapshot runTicker is parked with in the sender's queue send
    flushes,          \* number of timer and ticker fires so far
    collStopPc,       \* metricCollector.stop: "idle", "wait", "resetMetrics", ...
    callerPc,         \* the metric caller: "idle", "blocked", "panicked"
    callerEvent,      \* the event of the parked channel send
    nEvents,          \* number of metric events submitted so far
    senderPc,         \* metricSender: "init", "starting", "run"
    aggsQueue,        \* metricSender.aggsQueue
    posted,           \* the snapshots the sender has POSTed, in order
    history,          \* history: per kind, the events applied to the series, in order
    winStart,         \* history: per kind, Len(history[kind]) at the last snapshot
    snapshots         \* history: the last snapshot taken, with the window it closes

collectorVars ==
    <<counterSeries, gaugeSeries, histogramSeries, counterEvents, gaugeEvents,
      histogramEvents, chanClosed, mux, stopChan, stopped, consPc, tickPc,
      tickPending, flushes, collStopPc, callerPc, callerEvent, nEvents,
      senderPc, aggsQueue, posted, history, winStart, snapshots>>

VARIABLES
    registered,             \* registrationHandler.registered
    serviceInstanceNumber,  \* registrationHandler.serviceInstanceNumber
    serviceInstanceId,      \* registrationHandler.serviceInstanceId (uuid.Nil is 0)
    doneChan,               \* registrationHandler.doneChan is closed
    registeredChan,         \* registrationHandler.registeredChan is closed
    regMux,                 \* registrationHandler.mux: "free" or the writer holding it
    regPc,                  \* runRegistration: "init", "select", "register", "sleep",
                            \* "registerLocked", "heartbeat", "heartbeatLocked",
                            \* "heartbeatHalf", "done"
    regAttempt,             \* the attempt of the current tick (the loop variable i)
    regResponse,            \* the response the loop holds while it is in the lock
    regTicks,               \* number of ticker fires so far
    regStopPc,              \* registrationHandler.stop: "idle", "wait", "returned"
    waitPc,                 \* waitForRegistration: "idle", "select", "nil", "err"
    ctxDone,                \* the context of the waiter is cancelled
    getResult,              \* what the last getServiceInstance call returned and saw
    getSeq,                 \* flips at every getServiceInstance call
    assigned,               \* history: the identities stored from backend responses
    deregCalls              \* history: number of deregistration requests sent

registrationVars ==
    <<registered, serviceInstanceNumber, serviceInstanceId, doneChan,
      registeredChan, regMux, regPc, regAttempt, regResponse, regTicks,
      regStopPc, waitPc, ctxDone, getResult, getSeq, assigned, deregCalls>>

VARIABLES
    sndBatchStop,   \* metricSender.batchStop is closed
    sndStopped,     \* metricSender.stopped (src/unnamed/part_008)
    sndClosed,      \* metricSender.aggsQueue is closed (src/unnamed/part_008)
    sndStopPc,      \* metricSender.stop: "idle", "wait", "returned"
    sndProdPc,      \* the caller of sendAggregatedMetrics: "idle", "blocked", "panicked"
    sndProdMsg,     \* the snapshot of the parked queue send
    sndCount,       \* number of sendAggregatedMetrics calls so far
    enqueued,       \* history: the snapshots put on aggsQueue, in order
    sndPreStop      \* history: the non-empty snapshots enqueued when stop() was called

senderVars ==
    <<sndBatchStop, sndStopped, sndClosed, sndStopPc, sndProdPc, sndProdMsg,
      sndCount, enqueued, sndPreStop>>

VARIABLES
    capturedBuckets,  \* metricCollector.capturedBuckets: interval -> capturedMetrics
    now,              \* time.Now().Truncate(c.interval), as an interval number
    wg                \* metricCollector.wg: the WaitGroup counter

bucketVars == <<capturedBuckets, now, wg>>

VARIABLES
    globalAgent,           \* the global agent: NoAgent or the agent of newAgent
    agentsCreated,         \* history: number of newAgent calls
    batcherStarts,         \* history: number of batcher.start calls of the agent
    batcherStops,          \* number of batcher.stop calls of the agent
    handed,                \* history: the messages handed to batcher.addLog, addError
    printed,               \* history: the lines of the console passthrough
    globalMetricsHandler,  \* the global metrics handler: NoHandler or the handler
    metricsQueue,          \* metricsHandler.metricsQueue
    metricsBatch,          \* the batch of metricsHandler.runBatcher
    metricsSent,           \* history: the batches handed to sendBatch
    lastCall,              \* the last public call and how it ended
    nCalls                 \* number of public calls so far

agentVars ==
    <<globalAgent, agentsCreated, batcherStarts, batcherStops, handed, printed,
      globalMetricsHandler, metricsQueue, metricsBatch, metricsSent, lastCall,
      nCalls>>

VARIABLES
    ehOptions,      \* the EventHandlerOptions after the options were applied
    ehResult,       \* what NewEventHandler returned: "none", "error", "started"
    ehLoopPc,       \* the goroutine of start: "none", "run", "remaining", "done"
    newEvents,      \* EventHandler.newEvents
    batchedEvents,  \* EventHandler.batchedEvents
    ehStop,         \* EventHandler.stop is closed
    ehShutdownPc,   \* Shutdown: "idle", "wait", "returned", "panicked"
    ehPosts,        \* history: the batches of the POSTs the backend accepted
    ehAccepted,     \* history: the events whose capture call returned nil
    ehCaptures,     \* number of capture calls so far
    ehRejected,     \* history: the backend has rejected a POST
    ehAttempts      \* history: the batch and the outcome of the last two POSTs

eventVars ==
    <<ehOptions, ehResult, ehLoopPc, newEvents, batchedEvents, ehStop,
      ehShutdownPc, ehPosts, ehAccepted, ehCaptures, ehRejected, ehAttempts>>

VARIABLES
    otelLogger,     \* Logger.otelLogger: "nil" before NewLogger, then "mock"
    lgAttributes,   \* Logger.attributes
    lgPassthrough,  \* Logger.passthrough
    records,        \* the records handed to otelLogger.Emit, in order
    lgPrinted,      \* the lines of fmt.Println
    lgLast,         \* the last Logger call: its method, message and err
    lgCalls,        \* number of Logger calls so far
    lgSeverity      \* the last direct getSeverity call: its level and result

loggerVars ==
    <<otelLogger, lgAttributes, lgPassthrough, records, lgPrinted, lgLast,
      lgCalls, lgSeverity>>

vars ==
    <<batcherVars, collectorVars, registrationVars, senderVars, bucketVars,
      agentVars, eventVars, loggerVars>>

\* what an operation of one component leaves alone
outsideBatcher ==
    <<collectorVars, registrationVars, senderVars, bucketVars, agentVars,
      eventVars, loggerVars>>
outsideCollector ==
    <<batcherVars, registrationVars, senderVars, bucketVars, agentVars,
      eventVars, loggerVars>>
outsideRegistration ==
    <<batcherVars, collectorVars, senderVars, bucketVars, agentVars,
      eventVars, loggerVars>>
\* the collector's state other than its sender's loop, queue and POSTs
outsideSender ==
    <<batcherVars, registrationVars, bucketVars, agentVars, eventVars,
      loggerVars, counterSeries, gaugeSeries, histogramSeries, counterEvents, gaugeEvents,
      histogramEvents, chanClosed, mux, stopChan, stopped, consPc, tickPc,
      tickPending, flushes, collStopPc, callerPc, callerEvent, nEvents,
      history, winStart, snapshots>>
outsideAgent ==
    <<batcherVars, collectorVars, registrationVars, senderVars, bucketVars,
      eventVars, loggerVars>>
outsideEvents ==
    <<batcherVars, collectorVars, registrationVars, senderVars, bucketVars,
      agentVars, loggerVars>>
outsideLogger ==
    <<batcherVars, collectorVars, registrationVars, senderVars, bucketVars,
      agentVars, eventVars>>
\* the state the bucket variant of the collector does not have
outsideBuckets ==
    <<batcherVars, registrationVars, senderVars, agentVars, eventVars,
      loggerVars, counterSeries, gaugeSeries, histogramSeries, histogramEvents, chanClosed,
      stopped, history, winStart, snapshots>>

\* ------------------------------------------------------------------ helpers
Range(s) == {s[i] : i \in 1..Len(s)}

RECURSIVE Concat(_)
Concat(ss) == IF ss = <<>> THEN <<>> ELSE Head(ss) \o Concat(Tail(ss))

\* the items of all requests issued so far, in the order they were sent
SentItems == Concat([i \in 1..Len(requests) |-> requests[i].items])

\* s without the elements of the set S, order kept
RECURSIVE Without(_, _)
Without(s, S) ==
    IF s = <<>> THEN <<>>
    ELSE IF Head(s) \in S THEN Without(Tail(s), S)
         ELSE <<Head(s)>> \o Without(Tail(s), S)

\* ------------------------------------------------------------------ batcher
\* a send on the buffered channel: the value goes to the back of the buffer
ChanSend(q, m) == Append(q, m)

\* the size test of the loop, "len(logs) >= maxBatchSize"
SizeReached_Off(l) == Len(l) > maxBatchSize
SizeReached(l) == Len(l) >= maxBatchSize

\* the slice after a flush: "logs = nil", whatever sendLogBatch returned
AfterSend_Retain(l, ok) == IF ok THEN <<>> ELSE l
AfterSend(l, ok) == <<>>

\* sendLogBatch + sendBatch: one POST carrying the slice; ok is "err == nil".
\* trigger, outstanding and queued are history fields: what made the loop
\* flush, the accepted messages not yet sent, and the channel at that moment.
sendLogBatch(l, ok, trigger) ==
    IF Len(l) = 0 THEN requests
    ELSE Append(requests,
                [items |-> l, ok |-> ok, trigger |-> trigger,
                 outstanding |-> Without(accepted, Range(SentItems)),
                 queued |-> logQueue])

BatcherInit ==
    /\ logQueue = <<>>
    /\ logs = <<>>
    /\ batchStop = FALSE
    /\ loopPc = "init"
    /\ stopPc = "idle"
    /\ prodPc = [p \in Producers |-> "idle"]
    /\ prodMsg = [p \in Producers |-> Nil]
    /\ requests = <<>>
    /\ nextId = 1
    /\ accepted = <<>>
    /\ preStop = {}

\* batcher.start: wg.Add and "go b.runLogBatcher()"
BatcherStart ==
    /\ UNCHANGED outsideBatcher
    /\ loopPc = "init"
    /\ loopPc' = "run"
    /\ UNCHANGED <<logQueue, logs, batchStop, stopPc, prodPc, prodMsg, requests,
                   nextId, accepted, preStop>>

\* batcher.addLog(message): nil returns at once; otherwise "b.logQueue <- message",
\* which completes when the buffer has room and parks the caller when it is full
addLog(p, m) ==
    /\ UNCHANGED outsideBatcher
    /\ prodPc[p] = "idle"
    /\ IF m = Nil
       THEN UNCHANGED batcherVars
       ELSE /\ nextId <= MaxItems
            /\ m = nextId
            /\ nextId' = nextId + 1
            /\ IF Len(logQueue) < QueueCap
               THEN /\ logQueue' = ChanSend(logQueue, m)
                    /\ accepted' = Append(accepted, m)
                    /\ UNCHANGED <<prodPc, prodMsg>>
               ELSE /\ prodPc' = [prodPc EXCEPT ![p] = "blocked"]
                    /\ prodMsg' = [prodMsg EXCEPT ![p] = m]
                    /\ UNCHANGED <<logQueue, accepted>>
            /\ UNCHANGED <<logs, batchStop, loopPc, stopPc, requests, preStop>>

\* the parked send of addLog completes once the buffer has room
addLogResume(p) ==
    /\ UNCHANGED outsideBatcher
    /\ prodPc[p] = "blocked"
    /\ Len(logQueue) < QueueCap
    /\ logQueue' = ChanSend(logQueue, prodMsg[p])
    /\ accepted' = Append(accepted, prodMsg[p])
    /\ prodPc' = [prodPc EXCEPT ![p] = "idle"]
    /\ prodMsg' = [prodMsg EXCEPT ![p] = Nil]
    /\ UNCHANGED <<logs, batchStop, loopPc, stopPc, requests, nextId, preStop>>

\* runLogBatcher, "case <-b.batchStop": send the slice if any, then return
LoopStop ==
    /\ UNCHANGED outsideBatcher
    /\ loopPc = "run"
    /\ batchStop
    /\ \E ok \in BOOLEAN : requests' = sendLogBatch(logs, ok, "stop")
    /\ loopPc' = "done"
    /\ UNCHANGED <<logQueue, logs, batchStop, stopPc, prodPc, prodMsg, nextId,
                   accepted, preStop>>

\* runLogBatcher, "case msg := <-b.logQueue": append, flush at the size threshold
LoopRecv ==
    /\ UNCHANGED outsideBatcher
    /\ loopPc = "run"
    /\ logQueue # <<>>
    /\ logQueue' = Tail(logQueue)
    /\ LET appended == Append(logs, Head(logQueue)) IN
         IF SizeReached(appended)
         THEN \E ok \in BOOLEAN :
                /\ requests' = sendLogBatch(appended, ok, "size")
                /\ logs' = AfterSend(appended, ok)
         ELSE /\ logs' = appended
              /\ UNCHANGED requests
    /\ UNCHANGED <<batchStop, loopPc, stopPc, prodPc, prodMsg, nextId, accepted,
                   preStop>>

\* (the ticker case with the reset of line 123 left out)
LoopTick_NoReset ==
    /\ UNCHANGED outsideBatcher
    /\ loopPc = "run"
    /\ IF Len(logs) > 0
       THEN \E ok \in BOOLEAN : requests' = sendLogBatch(logs, ok, "ticker")
       ELSE UNCHANGED requests
    /\ UNCHANGED <<logQueue, logs, batchStop, loopPc, stopPc, prodPc, prodMsg,
                   nextId, accepted, preStop>>

\* runLogBatcher, "case <-ticker.C": flush a non-empty slice
LoopTick ==
    /\ UNCHANGED outsideBatcher
    /\ loopPc = "run"
    /\ IF Len(logs) > 0
       THEN \E ok \in BOOLEAN :
              /\ requests' = sendLogBatch(logs, ok, "ticker")
              /\ logs' = AfterSend(logs, ok)
       ELSE UNCHANGED <<requests, logs>>
    /\ UNCHANGED <<logQueue, batchStop, loopPc, stopPc, prodPc, prodMsg, nextId,
                   accepted, preStop>>

\* batcher.stop, first statement: close(b.batchStop)
BatcherStopCall ==
    /\ UNCHANGED outsideBatcher
    /\ stopPc = "idle"
    /\ loopPc # "init"
    /\ batchStop' = TRUE
    /\ stopPc' = "wait"
    /\ preStop' = Range(accepted)
    /\ UNCHANGED <<logQueue, logs, loopPc, prodPc, prodMsg, requests, nextId,
                   accepted>>

\* batcher.stop, second statement: b.wg.Wait() returns once the loop has exited
BatcherStopReturn ==
    /\ UNCHANGED outsideBatcher
    /\ stopPc = "wait"
    /\ loopPc = "done"
    /\ stopPc' = "returned"
    /\ UNCHANGED <<logQueue, logs, batchStop, loopPc, prodPc, prodMsg, requests,
                   nextId, accepted, preStop>>

BatcherNext ==
    \/ BatcherStart
    \/ \E p \in Producers : \E m \in {Nil, nextId} : addLog(p, m)
    \/ \E p \in Producers : addLogResume(p)
    \/ LoopStop
    \/ LoopRecv
    \/ LoopTick
    \/ BatcherStopCall
    \/ BatcherStopReturn



\* ------------------------------------------------------------------ batcher claims
ReqIdx == 1..Len(requests)
Items(i) == Range(requests[i].items)

\* C2: once stop() has returned, every message whose submit completed before
\* stop() was called has been included in some HTTP request.
C2_StopDrains ==
    stopPc = "returned" => \A m \in preStop : m \in Range(SentItems)

C4_SizeFlushInSameStep ==
    [][(/\ loopPc = "run"
        /\ logQueue # <<>>
        /\ logQueue' = Tail(logQueue)
        /\ Len(logs) = maxBatchSize - 1)
       => (/\ logs' = <<>>
           /\ Len(requests') = Len(requests) + 1
           /\ requests'[Len(requests')].items = Append(logs, Head(logQueue))
           /\ requests'[Len(requests')].trigger = "size")]_vars

C4_Witness ==
    \E i \in ReqIdx :
        /\ requests[i].trigger = "size"
        /\ Len(requests[i].items) = maxBatchSize
        /\ logs = <<>>

\* C5: a submit call made while the queue is at capacity returns immediately:
\* no caller is ever parked inside addLog.
C5_SubmitNeverBlocks ==
    \A p \in Producers : prodPc[p] # "blocked"

\* C6: a failed send is never retried: the messages of a failed request are in
\* no later request, and after a size or ticker flush they are no longer in
\* the slice (nor back in the queue) while the loop runs.
C6_FailedBatchNotRetried ==
    \A i \in ReqIdx :
        ~requests[i].ok
        => /\ \A j \in ReqIdx : j > i => Items(i) \cap Items(j) = {}
           /\ requests[i].trigger \in {"size", "ticker"}
              => Items(i) \cap (Range(logs) \cup Range(logQueue)) = {}

\* a failed size or ticker flush, and a later request with later messages
C6_Witness ==
    \E i, j \in ReqIdx :
        /\ i < j
        /\ ~requests[i].ok
        /\ requests[i].trigger \in {"size", "ticker"}
        /\ requests[j].items # <<>>

\* C25: no submitted message is included in more than one HTTP request (nor
\* twice in one): the messages of all requests issued so far are pairwise
\* distinct, and each of them was submitted.
C25_AtMostOnce ==
    /\ Cardinality(Range(SentItems)) = Len(SentItems)
    /\ Range(SentItems) \subseteq 1..(nextId - 1)

\* a size-triggered flush and a ticker flush have both sent messages, and
\* stop() has returned
C25_Witness ==
    /\ \E i \in ReqIdx : requests[i].trigger = "size"
    /\ \E i \in ReqIdx : requests[i].trigger = "ticker"
    /\ stopPc = "returned"

\* C36: between the steps of the batcher loop the slice holds fewer than
\* maxBatchSize items, and every request the loop has issued carries at least
\* 1 and at most maxBatchSize items.
C36_BatchSizeBound ==
    /\ Len(logs) < maxBatchSize
    /\ \A i \in 1..Len(requests) :
         /\ Len(requests[i].items) >= 1
         /\ Len(requests[i].items) <= maxBatchSize

\* the loop has sent a full batch at the size threshold and a smaller one
\* after it, and holds no item
C36_Witness ==
    /\ Len(requests) = 2
    /\ requests[1].trigger = "size"
    /\ Len(requests[1].items) = maxBatchSize
    /\ Len(requests[2].items) = 1
    /\ logs = <<>>

\* ------------------------------------------------------------------ strings
\* byte value of a character (the characters the model's strings are made of)
CharCode(c) ==
    CASE c = "=" -> 61
      [] c = "_" -> 95
      [] c = "a" -> 97
      [] c = "b" -> 98
      [] c = "e" -> 101
      [] c = "p" -> 112
      [] c = "q" -> 113
      [] c = "r" -> 114

\* a < b for Go strings: byte-wise lexicographic order
RECURSIVE StrLess(_, _)
StrLess(a, b) ==
    IF b = <<>> THEN FALSE
    ELSE IF a = <<>> THEN TRUE
    ELSE IF Head(a) # Head(b) THEN CharCode(Head(a)) < CharCode(Head(b))
    ELSE StrLess(Tail(a), Tail(b))

RECURSIVE InsertSorted(_, _)
InsertSorted(x, ss) ==
    IF ss = <<>> THEN <<x>>
    ELSE IF StrLess(Head(ss), x) THEN <<Head(ss)>> \o InsertSorted(x, Tail(ss))
    ELSE <<x>> \o ss

\* sort.Strings
RECURSIVE SortStrings(_)
SortStrings(ss) ==
    IF ss = <<>> THEN <<>> ELSE InsertSorted(Head(ss), SortStrings(Tail(ss)))

\* strings.Join
RECURSIVE Join(_, _)
Join(parts, sep) ==
    IF parts = <<>> THEN <<>>
    ELSE IF Len(parts) = 1 THEN Head(parts)
    ELSE Head(parts) \o sep \o Join(Tail(parts), sep)

\* the orders in which "range" may visit the keys of a map
IterationOrders(m) ==
    {o \in [1..Cardinality(DOMAIN m) -> DOMAIN m] : Range(o) = DOMAIN m}

\* metricIdentifier.String with the tags joined in iteration order, unsorted
String_Unsorted(name, tags, order) ==
    Join(<<name>> \o [i \in 1..Len(order) |->
                        order[i] \o <<"=">> \o tags[order[i]]], <<"_">>)

\* metricIdentifier.String: the name, then the sorted "k=v" strings, joined by
\* "_"; order is the order in which the range over m.tags visits the keys
String(name, tags, order) ==
    Join(<<name>> \o SortStrings([i \in 1..Len(order) |->
                        order[i] \o <<"=">> \o tags[order[i]]]), <<"_">>)

\* ------------------------------------------------------------------ metric events
\* capacity of the event channels (1000 in src/metric_collector.go:53, scaled)
ChanCap == 2
\* capacity of the sender's queue (100 in src/unnamed/part_008:35, scaled)
AggsCap == 1
\* number of metric events submitted in one run
MaxEvents == 3
\* number of timer and ticker fires in one run
MaxFlushes == 2

NoTags == <<>>
EnvRegion == (<<"e">> :> <<"p">>) @@ (<<"r">> :> <<"q">>)
MetricNames == {<<"a">>}
TagSets == {NoTags, EnvRegion}
Values == {1, 2}
\* the modes are "set", "inc" and "dec" (GaugeMode); "avg" is none of them

CounterEventsIn ==
    [kind : {"counter"}, name : MetricNames, tags : TagSets, value : Values,
     mode : {""}]
\* each mode with a value of its own: set 5, inc 2, dec 1, and "avg" 3
GaugeWrites == {<<"set", 5>>, <<"inc", 2>>, <<"dec", 1>>, <<"avg", 3>>}
GaugeEventsIn ==
    {[kind |-> "gauge", name |-> n, tags |-> NoTags, value |-> w[2],
      mode |-> w[1]] : n \in MetricNames, w \in GaugeWrites}
HistogramEventsIn ==
    [kind : {"histogram"}, name : MetricNames, tags : {NoTags}, value : Values,
     mode : {""}]

\* m[k] = v on a Go map
Put(m, k, v) == [x \in DOMAIN m \cup {k} |-> IF x = k THEN v ELSE m[x]]
EmptyMap == <<>>

\* ------------------------------------------------------------------ metric collector
\* sync.RWMutex.Lock proceeds only when nobody holds the lock (not reentrant)
CanLock(m) == m = "free"

\* processCounterEvent: add to the series of the identifier, or create it
processCounterEvent(series, e, order) ==
    LET id == String(e.name, e.tags, order) IN
      IF id \in DOMAIN series
      THEN [series EXCEPT ![id].value = @ + e.value]
      ELSE Put(series, id, [name |-> e.name, tags |-> e.tags, value |-> e.value])

\* the switch on event.mode with "dec" adding instead of subtracting
GaugeApply_DecAdds(old, mode, v) ==
    CASE mode = "inc" -> old + v
      [] mode = "dec" -> old + v
      [] mode = "set" -> v
      [] OTHER -> v

\* the switch on event.mode in processGaugeEvent
GaugeApply(old, mode, v) ==
    CASE mode = "inc" -> old + v
      [] mode = "dec" -> old - v
      [] mode = "set" -> v
      [] OTHER -> v

\* processGaugeEvent: apply the mode to the series, a new series starting at 0
processGaugeEvent(series, e, order) ==
    LET id == String(e.name, e.tags, order) IN
      IF id \in DOMAIN series
      THEN [series EXCEPT ![id].value = GaugeApply(@, e.mode, e.value)]
      ELSE Put(series, id, [name |-> e.name, tags |-> e.tags,
                            value |-> GaugeApply(0, e.mode, e.value)])

\* processHistogramEvent: append the raw value, or create the series with it
processHistogramEvent(series, e, order) ==
    LET id == String(e.name, e.tags, order) IN
      IF id \in DOMAIN series
      THEN [series EXCEPT ![id].values = Append(@, e.value)]
      ELSE Put(series, id, [name |-> e.name, tags |-> e.tags,
                            values |-> <<e.value>>])

\* aggregateMetrics: one message per series of each map (the slices are in map
\* iteration order, so a message is found by its series' identifier)
aggregateMetrics(timestamp) ==
    [Timestamp |-> timestamp,
     counterMetrics |-> [k \in DOMAIN counterSeries |->
        [MetricName |-> counterSeries[k].name, Value |-> counterSeries[k].value,
         Tags |-> counterSeries[k].tags]],
     gaugeMetrics |-> [k \in DOMAIN gaugeSeries |->
        [MetricName |-> gaugeSeries[k].name, Value |-> gaugeSeries[k].value,
         Tags |-> gaugeSeries[k].tags]],
     histogramMetrics |-> [k \in DOMAIN histogramSeries |->
        [MetricName |-> histogramSeries[k].name,
         Values |-> histogramSeries[k].values,
         Tags |-> histogramSeries[k].tags]]]

\* resetMetrics replacing the counter map by an empty one
resetCounters_NewMap(series) == EmptyMap

\* the loops of resetMetrics
resetCounters(series) == [k \in DOMAIN series |-> [series[k] EXCEPT !.value = 0]]
resetHistograms(series) ==
    [k \in DOMAIN series |-> [series[k] EXCEPT !.values = <<>>]]

NoSnapshot == [Timestamp |-> -1]

Kinds == {"counter", "gauge", "histogram"}
HistoryLen == [k \in Kinds |-> Len(history[k])]

CollectorInit ==
    /\ counterSeries = EmptyMap
    /\ gaugeSeries = EmptyMap
    /\ histogramSeries = EmptyMap
    /\ counterEvents = <<>>
    /\ gaugeEvents = <<>>
    /\ histogramEvents = <<>>
    /\ chanClosed = FALSE
    /\ mux = "free"
    /\ stopChan = FALSE
    /\ stopped = FALSE
    /\ consPc = "init"
    /\ tickPc = "init"
    /\ tickPending = NoSnapshot
    /\ flushes = 0
    /\ collStopPc = "idle"
    /\ callerPc = "idle"
    /\ callerEvent = Nil
    /\ nEvents = 0
    /\ senderPc = "init"
    /\ aggsQueue = <<>>
    /\ posted = <<>>
    /\ history = [k \in Kinds |-> <<>>]
    /\ winStart = [k \in Kinds |-> 0]
    /\ snapshots = <<>>

EventChan(kind) ==
    CASE kind = "counter" -> counterEvents
      [] kind = "gauge" -> gaugeEvents
      [] kind = "histogram" -> histogramEvents

SetEventChan(kind, q) ==
    /\ counterEvents' = IF kind = "counter" THEN q ELSE counterEvents
    /\ gaugeEvents' = IF kind = "gauge" THEN q ELSE gaugeEvents
    /\ histogramEvents' = IF kind = "histogram" THEN q ELSE histogramEvents

\* metricCollector.start: wg.Add(2) and the three "go" statements
CollectorStart ==
    /\ UNCHANGED outsideCollector
    /\ consPc = "init"
    /\ consPc' = "run"
    /\ tickPc' = "timer"
    /\ senderPc' = "starting"
    /\ UNCHANGED <<counterSeries, gaugeSeries, histogramSeries, counterEvents,
                   gaugeEvents, histogramEvents, chanClosed, mux, stopChan,
                   stopped, tickPending, flushes, collStopPc, callerPc,
                   callerEvent, nEvents, aggsQueue, posted, history, winStart,
                   snapshots>>

\* addCounter / addGauge / addHistogram: return if c.stopped, else send the event
\* on its channel, which parks the caller while the buffer is full
addEvent(e) ==
    /\ UNCHANGED outsideCollector
    /\ callerPc = "idle"
    /\ consPc # "init"
    /\ nEvents < MaxEvents
    /\ IF stopped
       THEN UNCHANGED collectorVars
       ELSE /\ nEvents' = nEvents + 1
            /\ IF Len(EventChan(e.kind)) < ChanCap
               THEN /\ SetEventChan(e.kind, Append(EventChan(e.kind), e))
                    /\ UNCHANGED <<callerPc, callerEvent>>
               ELSE /\ callerPc' = "blocked"
                    /\ callerEvent' = e
                    /\ UNCHANGED <<counterEvents, gaugeEvents, histogramEvents>>
            /\ UNCHANGED <<counterSeries, gaugeSeries, histogramSeries,
                           chanClosed, mux, stopChan, stopped, consPc, tickPc,
                           tickPending, flushes, collStopPc, senderPc,
                           aggsQueue, posted, history, winStart, snapshots>>

addCounter(e) == e.kind = "counter" /\ addEvent(e)
addGauge(e) == e.kind = "gauge" /\ addEvent(e)
addHistogram(e) == e.kind = "histogram" /\ addEvent(e)

\* the parked channel send of the caller completes once the buffer has room
addEventResume ==
    /\ UNCHANGED outsideCollector
    /\ callerPc = "blocked"
    /\ ~chanClosed
    /\ Len(EventChan(callerEvent.kind)) < ChanCap
    /\ SetEventChan(callerEvent.kind,
                    Append(EventChan(callerEvent.kind), callerEvent))
    /\ callerPc' = "idle"
    /\ callerEvent' = Nil
    /\ UNCHANGED <<counterSeries, gaugeSeries, histogramSeries, chanClosed, mux,
                   stopChan, stopped, consPc, tickPc, tickPending, flushes,
                   collStopPc, nEvents, senderPc, aggsQueue, posted, history,
                   winStart, snapshots>>

\* ApplyHead taking the newest event of the channel instead of the oldest
ApplyHead_TakesNewest(kind) ==
    LET q == EventChan(kind)
        e == q[Len(q)] IN
      /\ q # <<>>
      /\ CanLock(mux)
      /\ SetEventChan(kind, SubSeq(q, 1, Len(q) - 1))
      /\ \E order \in IterationOrders(e.tags) :
           /\ counterSeries' = IF kind = "counter"
                THEN processCounterEvent(counterSeries, e, order)
                ELSE counterSeries
           /\ gaugeSeries' = IF kind = "gauge"
                THEN processGaugeEvent(gaugeSeries, e, order)
                ELSE gaugeSeries
           /\ histogramSeries' = IF kind = "histogram"
                THEN processHistogramEvent(histogramSeries, e, order)
                ELSE histogramSeries
      /\ history' = [history EXCEPT ![kind] = Append(@, e)]

\* one event taken from its channel and applied under the lock
\* (processCounterEvent, processGaugeEvent or processHistogramEvent)
ApplyHead(kind) ==
    LET e == Head(EventChan(kind)) IN
      /\ EventChan(kind) # <<>>
      /\ CanLock(mux)
      /\ SetEventChan(kind, Tail(EventChan(kind)))
      /\ \E order \in IterationOrders(e.tags) :
           /\ counterSeries' = IF kind = "counter"
                THEN processCounterEvent(counterSeries, e, order)
                ELSE counterSeries
           /\ gaugeSeries' = IF kind = "gauge"
                THEN processGaugeEvent(gaugeSeries, e, order)
                ELSE gaugeSeries
           /\ histogramSeries' = IF kind = "histogram"
                THEN processHistogramEvent(histogramSeries, e, order)
                ELSE histogramSeries
      /\ history' = [history EXCEPT ![kind] = Append(@, e)]

\* processEvents, "case <-c.stopChan": return (wg.Done)
ConsStop ==
    /\ UNCHANGED outsideCollector
    /\ consPc = "run"
    /\ stopChan
    /\ consPc' = "done"
    /\ UNCHANGED <<counterSeries, gaugeSeries, histogramSeries, counterEvents,
                   gaugeEvents, histogramEvents, chanClosed, mux, stopChan,
                   stopped, tickPc, tickPending, flushes, collStopPc, callerPc,
                   callerEvent, nEvents, senderPc, aggsQueue, posted, history,
                   winStart, snapshots>>

\* processEvents, the three receive cases of the select
ConsRecv(kind) ==
    /\ UNCHANGED outsideCollector
    /\ consPc = "run"
    /\ ApplyHead(kind)
    /\ UNCHANGED <<chanClosed, mux, stopChan, stopped, consPc, tickPc,
                   tickPending, flushes, collStopPc, callerPc, callerEvent,
                   nEvents, senderPc, aggsQueue, posted, winStart, snapshots>>

\* sendMetricsForInterval: Lock, aggregateMetrics, Unlock, then
\* sender.sendAggregatedMetrics, a channel send that parks while the queue is full
sendMetricsForInterval(intervalStart) ==
    LET metricsToSend == aggregateMetrics(intervalStart) IN
      /\ CanLock(mux)
      /\ snapshots' = <<[metrics |-> metricsToSend, from |-> winStart,
                         to |-> HistoryLen, by |-> "interval"]>>
      /\ winStart' = HistoryLen
      /\ IF Len(aggsQueue) < AggsCap
         THEN /\ aggsQueue' = Append(aggsQueue, metricsToSend)
              /\ tickPc' = "ticker"
              /\ UNCHANGED tickPending
         ELSE /\ tickPc' = "send"
              /\ tickPending' = metricsToSend
              /\ UNCHANGED aggsQueue
      /\ UNCHANGED <<counterSeries, gaugeSeries, histogramSeries, mux>>

\* runTicker, "case <-c.stopChan" of either select: return (wg.Done)
TickStop ==
    /\ UNCHANGED outsideCollector
    /\ tickPc \in {"timer", "ticker"}
    /\ stopChan
    /\ tickPc' = "done"
    /\ UNCHANGED <<counterSeries, gaugeSeries, histogramSeries, counterEvents,
                   gaugeEvents, histogramEvents, chanClosed, mux, stopChan,
                   stopped, consPc, tickPending, flushes, collStopPc, callerPc,
                   callerEvent, nEvents, senderPc, aggsQueue, posted, history,
                   winStart, snapshots>>

\* runTicker, "case firstTickTime := <-timer.C": return if stopChan is closed,
\* else flush the previous interval and go on with the periodic ticker
TickFirst ==
    /\ UNCHANGED outsideCollector
    /\ tickPc = "timer"
    /\ flushes < MaxFlushes
    /\ flushes' = flushes + 1
    /\ IF stopChan
       THEN /\ tickPc' = "done"
            /\ UNCHANGED <<counterSeries, gaugeSeries, histogramSeries, mux,
                           tickPending, aggsQueue, winStart, snapshots>>
       ELSE sendMetricsForInterval(flushes)
    /\ UNCHANGED <<counterEvents, gaugeEvents, histogramEvents, chanClosed,
                   stopChan, stopped, consPc, collStopPc, callerPc, callerEvent,
                   nEvents, senderPc, posted, history>>

\* runTicker, "case tickTime := <-ticker.C": flush the interval that elapsed
TickPeriodic ==
    /\ UNCHANGED outsideCollector
    /\ tickPc = "ticker"
    /\ flushes < MaxFlushes
    /\ flushes' = flushes + 1
    /\ sendMetricsForInterval(flushes)
    /\ UNCHANGED <<counterEvents, gaugeEvents, histogramEvents, chanClosed,
                   stopChan, stopped, consPc, collStopPc, callerPc, callerEvent,
                   nEvents, senderPc, posted, history>>

\* the parked queue send of sendMetricsForInterval completes
TickResume ==
    /\ UNCHANGED outsideCollector
    /\ tickPc = "send"
    /\ Len(aggsQueue) < AggsCap
    /\ aggsQueue' = Append(aggsQueue, tickPending)
    /\ tickPending' = NoSnapshot
    /\ tickPc' = "ticker"
    /\ UNCHANGED <<counterSeries, gaugeSeries, histogramSeries, counterEvents,
                   gaugeEvents, histogramEvents, chanClosed, mux, stopChan,
                   stopped, consPc, flushes, collStopPc, callerPc, callerEvent,
                   nEvents, senderPc, posted, history, winStart, snapshots>>

\* metricSender.start, run by "go c.sender.start()": wg.Add(1), go runMetricSender
SenderStart ==
    /\ UNCHANGED outsideCollector
    /\ senderPc = "starting"
    /\ senderPc' = "run"
    /\ UNCHANGED <<counterSeries, gaugeSeries, histogramSeries, counterEvents,
                   gaugeEvents, histogramEvents, chanClosed, mux, stopChan,
                   stopped, consPc, tickPc, tickPending, flushes, collStopPc,
                   callerPc, callerEvent, nEvents, aggsQueue, posted, history,
                   winStart, snapshots>>

\* runMetricSender, "case aggs := <-s.aggsQueue": POST a non-empty snapshot
SenderRecv ==
    /\ UNCHANGED outsideCollector
    /\ senderPc = "run"
    /\ aggsQueue # <<>>
    /\ aggsQueue' = Tail(aggsQueue)
    /\ LET aggs == Head(aggsQueue) IN
         posted' = IF \/ DOMAIN aggs.counterMetrics # {}
                      \/ DOMAIN aggs.gaugeMetrics # {}
                      \/ DOMAIN aggs.histogramMetrics # {}
                   THEN Append(posted, aggs)
                   ELSE posted
    /\ UNCHANGED <<counterSeries, gaugeSeries, histogramSeries, counterEvents,
                   gaugeEvents, histogramEvents, chanClosed, mux, stopChan,
                   stopped, consPc, tickPc, tickPending, flushes, collStopPc,
                   callerPc, callerEvent, nEvents, senderPc, history, winStart,
                   snapshots>>

\* metricCollector.stop: c.stopped = true; close(c.stopChan); then wg.Wait
CollStopCall ==
    /\ UNCHANGED outsideCollector
    /\ collStopPc = "idle"
    /\ consPc # "init"
    /\ stopped' = TRUE
    /\ stopChan' = TRUE
    /\ collStopPc' = "wait"
    /\ UNCHANGED <<counterSeries, gaugeSeries, histogramSeries, counterEvents,
                   gaugeEvents, histogramEvents, chanClosed, mux, consPc, tickPc,
                   tickPending, flushes, callerPc, callerEvent, nEvents,
                   senderPc, aggsQueue, posted, history, winStart, snapshots>>

\* metricCollector.stop: wg.Wait returns when both loops have exited; the three
\* channels are closed (a caller parked in a send on one of them panics)
CollStopClose ==
    /\ UNCHANGED outsideCollector
    /\ collStopPc = "wait"
    /\ consPc = "done"
    /\ tickPc = "done"
    /\ chanClosed' = TRUE
    /\ callerPc' = IF callerPc = "blocked" THEN "panicked" ELSE callerPc
    /\ collStopPc' = "drain"
    /\ UNCHANGED <<counterSeries, gaugeSeries, histogramSeries, counterEvents,
                   gaugeEvents, histogramEvents, mux, stopChan, stopped, consPc,
                   tickPc, tickPending, flushes, callerEvent, nEvents, senderPc,
                   aggsQueue, posted, history, winStart, snapshots>>

\* processAfterShutdown, one iteration: the counter channel is drained first,
\* then the gauge channel, then the histogram channel
CollStopDrain ==
    /\ UNCHANGED outsideCollector
    /\ collStopPc = "drain"
    /\ LET kind == IF counterEvents # <<>> THEN "counter"
                   ELSE IF gaugeEvents # <<>> THEN "gauge" ELSE "histogram" IN
         ApplyHead(kind)
    /\ UNCHANGED <<chanClosed, mux, stopChan, stopped, consPc, tickPc,
                   tickPending, flushes, collStopPc, callerPc, callerEvent,
                   nEvents, senderPc, aggsQueue, posted, winStart, snapshots>>

\* sendAfterShutdown, run when processAfterShutdown has emptied the channels:
\* Lock, aggregateMetrics, then resetMetrics, whose first statement is
\* c.mux.Lock() again. stop() goes on only if that Lock can proceed: the series
\* are reset, both Unlocks run and the snapshot is handed to the sender.
sendAfterShutdown ==
    /\ UNCHANGED outsideCollector
    /\ collStopPc = "drain"
    /\ counterEvents = <<>> /\ gaugeEvents = <<>> /\ histogramEvents = <<>>
    /\ CanLock(mux)
    /\ LET held == "stop"
           metricsToSend == aggregateMetrics(flushes) IN
         /\ snapshots' = <<[metrics |-> metricsToSend, from |-> winStart,
                            to |-> HistoryLen, by |-> "shutdown"]>>
         /\ winStart' = HistoryLen
         /\ IF CanLock(held)
            THEN /\ counterSeries' = resetCounters(counterSeries)
                 /\ histogramSeries' = resetHistograms(histogramSeries)
                 /\ mux' = "free"
                 /\ tickPending' = metricsToSend
                 /\ collStopPc' = "handover"
            ELSE /\ mux' = held
                 /\ collStopPc' = "resetMetrics"
                 /\ UNCHANGED <<counterSeries, histogramSeries, tickPending>>
    /\ UNCHANGED <<gaugeSeries, counterEvents, gaugeEvents, histogramEvents,
                   chanClosed, stopChan, stopped, consPc, tickPc, flushes,
                   callerPc, callerEvent, nEvents, senderPc, aggsQueue, posted,
                   history>>

CollectorNext ==
    \/ CollectorStart
    \/ \E e \in CounterEventsIn : addCounter(e)
    \/ \E e \in GaugeEventsIn : addGauge(e)
    \/ \E e \in HistogramEventsIn : addHistogram(e)
    \/ addEventResume
    \/ ConsStop
    \/ \E kind \in Kinds : ConsRecv(kind)
    \/ TickStop
    \/ TickFirst
    \/ TickPeriodic
    \/ TickResume
    \/ SenderStart
    \/ SenderRecv
    \/ CollStopCall
    \/ CollStopClose
    \/ CollStopDrain
    \/ sendAfterShutdown

\* resetMetrics called on its own, with the lock free: Lock, every counter
\* value set to 0 and every histogram value list to empty, Unlock
resetMetrics ==
    /\ UNCHANGED outsideCollector
    /\ consPc # "init"
    /\ CanLock(mux)
    /\ counterSeries' = resetCounters(counterSeries)
    /\ histogramSeries' = resetHistograms(histogramSeries)
    /\ UNCHANGED <<gaugeSeries, counterEvents, gaugeEvents, histogramEvents,
                   chanClosed, mux, stopChan, stopped, consPc, tickPc,
                   tickPending, flushes, collStopPc, callerPc, callerEvent,
                   nEvents, senderPc, aggsQueue, posted, history, winStart,
                   snapshots>>

\* the event consumer of the collector with resetMetrics called between events
ResetNext ==
    \/ CollectorStart
    \/ \E e \in CounterEventsIn : addCounter(e)
    \/ \E e \in GaugeEventsIn : addGauge(e)
    \/ \E e \in HistogramEventsIn : addHistogram(e)
    \/ addEventResume
    \/ \E kind \in Kinds : ConsRecv(kind)
    \/ resetMetrics

\* ------------------------------------------------------------------ collector claims
\* the events of one kind applied in the window a snapshot closes
Window(snap, kind) ==
    SubSeq(history[kind], snap.from[kind] + 1, snap.to[kind])

\* the events of evs that carry the identity (name, tags)
RECURSIVE OfIdentity(_, _, _)
OfIdentity(evs, name, tags) ==
    IF evs = <<>> THEN <<>>
    ELSE IF Head(evs).name = name /\ Head(evs).tags = tags
         THEN <<Head(evs)>> \o OfIdentity(Tail(evs), name, tags)
         ELSE OfIdentity(Tail(evs), name, tags)

RECURSIVE SumValues(_)
SumValues(evs) == IF evs = <<>> THEN 0 ELSE Head(evs).value + SumValues(Tail(evs))

ValuesOf(evs) == [i \in 1..Len(evs) |-> evs[i].value]

\* the left fold the claim describes: set replaces, inc adds, dec subtracts,
\* any other mode replaces
RECURSIVE FoldGauge(_, _)
FoldGauge(acc, evs) ==
    IF evs = <<>> THEN acc
    ELSE FoldGauge(IF Head(evs).mode = "inc" THEN acc + Head(evs).value
                   ELSE IF Head(evs).mode = "dec" THEN acc - Head(evs).value
                   ELSE Head(evs).value,
                   Tail(evs))

\* C1: stop() returns; in particular it is never parked on the aggregation
\* lock while holding that lock itself (a wait nothing can end).
C1_StopNotDeadlockedOnLock ==
    collStopPc = "resetMetrics" => mux # "stop"

\* C7: the snapshot of a periodic flush holds, for every identity with counter
\* events in its window, exactly one counter series, whose value is the sum of
\* those events' values.
C7_CounterIsWindowSum ==
    \A i \in 1..Len(snapshots) :
        snapshots[i].by = "interval" =>
        LET W == Window(snapshots[i], "counter")
            msgs == snapshots[i].metrics.counterMetrics IN
          \A j \in 1..Len(W) :
            LET M == {k \in DOMAIN msgs : /\ msgs[k].MetricName = W[j].name
                                          /\ msgs[k].Tags = W[j].tags} IN
              /\ Cardinality(M) = 1
              /\ \A k \in M :
                   msgs[k].Value = SumValues(OfIdentity(W, W[j].name, W[j].tags))

\* C8: the value of every gauge series is the fold of the gauge events of its
\* identity, in the order they were applied, starting from 0: set replaces,
\* inc adds, dec subtracts, an unknown mode replaces.
C8_GaugeIsFold ==
    \A k \in DOMAIN gaugeSeries :
        gaugeSeries[k].value =
            FoldGauge(0, OfIdentity(history["gauge"], gaugeSeries[k].name,
                                    gaugeSeries[k].tags))

\* set 5, inc 2, dec 1 applied in this order to a new series: the value is 6
C8_Witness ==
    /\ Len(history["gauge"]) = 3
    /\ [i \in 1..3 |-> history["gauge"][i].mode] = <<"set", "inc", "dec">>
    /\ \E k \in DOMAIN gaugeSeries : gaugeSeries[k].value = 6

\* C9: the histogram series in the snapshot of a periodic flush carries the raw
\* values of the histogram events of its identity applied in the window, one
\* entry per event, in the order they were applied.
C9_HistogramIsWindowValues ==
    \A i \in 1..Len(snapshots) :
        snapshots[i].by = "interval" =>
        LET W == Window(snapshots[i], "histogram")
            msgs == snapshots[i].metrics.histogramMetrics IN
          \A k \in DOMAIN msgs :
            msgs[k].Values =
                ValuesOf(OfIdentity(W, msgs[k].MetricName, msgs[k].Tags))

\* C10: the identifier does not depend on the order in which the tag map is
\* iterated: every series is stored under the identifier that every iteration
\* order of its tags yields, so events of one (name, tags) share one series.
C10_IdentifierIgnoresTagOrder ==
    \A k \in DOMAIN counterSeries :
        /\ \A o \in IterationOrders(counterSeries[k].tags) :
             String(counterSeries[k].name, counterSeries[k].tags, o) = k
        /\ \A k2 \in DOMAIN counterSeries :
             (/\ counterSeries[k2].name = counterSeries[k].name
              /\ counterSeries[k2].tags = counterSeries[k].tags) => k2 = k

\* two counter events with the two-tag set have been applied to one series
C10_Witness ==
    /\ Len(OfIdentity(history["counter"], <<"a">>, EnvRegion)) >= 2
    /\ \E k \in DOMAIN counterSeries :
         /\ counterSeries[k].tags = EnvRegion
         /\ counterSeries[k].value =
              SumValues(OfIdentity(history["counter"], <<"a">>, EnvRegion))

\* C12: after a periodic flush the counter sums and the histogram value lists
\* are back to their zero state: as long as no event has been applied since the
\* last periodic flush, every counter series holds 0 and every histogram series
\* holds no value.
C12_AccumulatorsResetOnFlush ==
    (/\ snapshots # <<>>
     /\ snapshots[Len(snapshots)].by = "interval"
     /\ winStart = HistoryLen) =>
        /\ \A k \in DOMAIN counterSeries : counterSeries[k].value = 0
        /\ \A k \in DOMAIN histogramSeries : histogramSeries[k].values = <<>>

\* C13: while the registration handler has not produced a service instance, a
\* periodic flush hands no snapshot to the sender: every step in which
\* sendMetricsForInterval takes a snapshot and passes it on happens while the
\* handler is registered.
C13_FlushGatedByRegistration ==
    [][(/\ snapshots' # snapshots
        /\ snapshots'[Len(snapshots')].by = "interval") => registered]_vars

\* number of metric events whose channel send has completed
EnqueuedEvents ==
    nEvents - (IF callerPc \in {"blocked", "panicked"} THEN 1 ELSE 0)

\* C20: stop() takes the final snapshot only when every event enqueued before
\* it has been applied to the series (no event is left in a channel and the
\* snapshot closes the window at the last applied event), and that snapshot is
\* then handed to the sender (it is the snapshot of the pending queue send, or
\* in the sender's queue, or POSTed), the sender not being stopped before.
C20_ShutdownOrder ==
    (snapshots # <<>> /\ snapshots[Len(snapshots)].by = "shutdown") =>
      LET final == snapshots[Len(snapshots)] IN
        /\ counterEvents = <<>> /\ gaugeEvents = <<>> /\ histogramEvents = <<>>
        /\ final.to = HistoryLen
        /\ HistoryLen["counter"] + HistoryLen["gauge"] + HistoryLen["histogram"]
             = EnqueuedEvents
        /\ \/ tickPending = final.metrics
           \/ final.metrics \in Range(aggsQueue)
           \/ final.metrics \in Range(posted)
        /\ (sndStopPc # "idle") =>
             final.metrics \in Range(aggsQueue) \cup Range(posted)

\* the part of C20 that the code reaches: the final snapshot is taken after
\* every enqueued event has been applied
C20_EventsAppliedBeforeFinalSnapshot ==
    (snapshots # <<>> /\ snapshots[Len(snapshots)].by = "shutdown") =>
      LET final == snapshots[Len(snapshots)] IN
        /\ counterEvents = <<>> /\ gaugeEvents = <<>> /\ histogramEvents = <<>>
        /\ final.to = HistoryLen
        /\ HistoryLen["counter"] + HistoryLen["gauge"] + HistoryLen["histogram"]
             = EnqueuedEvents

\* C21: addCounter, addGauge and addHistogram return to the caller without
\* waiting, whatever the event channel holds: the caller is never parked in
\* the channel send.
C21_MetricSubmitNeverBlocks ==
    callerPc # "blocked"

\* s is an initial part of t
IsPrefix(s, t) == Len(s) <= Len(t) /\ SubSeq(t, 1, Len(s)) = s

\* the events of one kind in the order their channel sends completed: those
\* applied so far, then those still in the channel
EnqueueOrder(kind) == history[kind] \o EventChan(kind)

\* C32: the events of one kind and one identity are applied to the series in
\* the order they were enqueued on that kind's channel, in the consumer loop
\* and in the drain after shutdown: every step leaves the enqueue order of
\* the identity as it was, but for events added at its end, and the applied
\* events are always an initial part of it.
C32_AppliedInEnqueueOrder ==
    [][\A kind \in Kinds, name \in MetricNames, tags \in TagSets :
         /\ IsPrefix(OfIdentity(EnqueueOrder(kind), name, tags),
                     OfIdentity(EnqueueOrder(kind)', name, tags))
         /\ IsPrefix(OfIdentity(history[kind], name, tags),
                     OfIdentity(history'[kind], name, tags))]_vars

\* the hand-over: stop() is draining the counter channel, which still holds an
\* event of an identity of which the consumer loop has applied one with
\* another value (the channel was never longer than it is now after the close)
C32_Witness ==
    /\ collStopPc = "drain"
    /\ Len(counterEvents) = ChanCap
    /\ history["counter"] # <<>>
    /\ LET applied == history["counter"][Len(history["counter"])] IN
         /\ counterEvents[1].name = applied.name
         /\ counterEvents[1].tags = applied.tags
         /\ counterEvents[1].value # applied.value

\* C34: addCounter, addGauge or addHistogram running concurrently with stop(),
\* or after it, never panics: no channel send of a caller is performed, or
\* still parked, on an event channel that stop() has closed.
C34_NoSendOnClosedChannel ==
    /\ callerPc # "panicked"
    /\ chanClosed => callerPc # "blocked"

\* C39: resetMetrics changes only counter values, to 0, and histogram value
\* lists, to empty: the series keys of the three maps, the names and tags of
\* the series and every gauge series are as before, so a gauge keeps its last
\* value across the reset.
C39_ResetFrame ==
    [][resetMetrics =>
         /\ DOMAIN counterSeries' = DOMAIN counterSeries
         /\ DOMAIN histogramSeries' = DOMAIN histogramSeries
         /\ gaugeSeries' = gaugeSeries
         /\ \A k \in DOMAIN counterSeries :
              counterSeries'[k] = [counterSeries[k] EXCEPT !.value = 0]
         /\ \A k \in DOMAIN histogramSeries :
              histogramSeries'[k] = [histogramSeries[k] EXCEPT !.values = <<>>]]_vars

\* resetMetrics has run on a counter, a gauge and a histogram series: the
\* counter is 0 (no sum of events is), the histogram holds no value, and the
\* gauge has its value
C39_Witness ==
    /\ \E k \in DOMAIN counterSeries : counterSeries[k].value = 0
    /\ \E k \in DOMAIN histogramSeries : histogramSeries[k].values = <<>>
    /\ \E k \in DOMAIN gaugeSeries : gaugeSeries[k].value = 5
    /\ counterEvents = <<>> /\ gaugeEvents = <<>> /\ histogramEvents = <<>>

\* ------------------------------------------------------------------ metric identity
\* names and tag values that contain the separators "_" and "=" of
\* metricIdentifier.String
NameWithSeparators == <<"a", "_", "e", "=", "p">>
EnvOnly == (<<"e">> :> <<"p">>)
EnvWithSeparators == (<<"e">> :> <<"p", "_", "r", "=", "q">>)
IdentityEventsIn ==
    [kind : {"counter"}, name : MetricNames \cup {NameWithSeparators},
     tags : {NoTags, EnvOnly, EnvWithSeparators, EnvRegion}, value : {1},
     mode : {""}]

\* the collector fed with counter events of these identities
IdentityNext ==
    \/ CollectorStart
    \/ \E e \in IdentityEventsIn : addCounter(e)
    \/ addEventResume
    \/ ConsRecv("counter")

\* the (name, tags) pairs of the events of evs
Identities(evs) == {<<evs[i].name, evs[i].tags>> : i \in 1..Len(evs)}

\* C11: events whose (name, tags) pairs differ never share a series: there are
\* as many counter series as distinct identities among the applied events, and
\* each series holds the sum of the events of its own identity only.
C11_IdentityInjective ==
    /\ Cardinality(DOMAIN counterSeries) =
         Cardinality(Identities(history["counter"]))
    /\ \A k \in DOMAIN counterSeries :
         counterSeries[k].value =
           SumValues(OfIdentity(history["counter"], counterSeries[k].name,
                                counterSeries[k].tags))

\* ------------------------------------------------------------------ metric sender
\* number of sendAggregatedMetrics calls in one run
MaxSnapshots == 3

\* one counterMessage
OneCounter == [MetricName |-> <<"a">>, Value |-> 1, Tags |-> NoTags]
\* the aggregatedMetrics handed to the sender: the t-th is empty or holds one
\* counter message
SnapshotsIn(t) ==
    {[Timestamp |-> t, counterMetrics |-> c, gaugeMetrics |-> EmptyMap,
      histogramMetrics |-> EmptyMap] : c \in {EmptyMap, <<OneCounter>>}}

\* the check before sendMetrics in src/metric_sender.go:65
NonEmpty(aggs) ==
    DOMAIN aggs.counterMetrics # {} \/ DOMAIN aggs.gaugeMetrics # {}

\* the check before sendMetrics in src/unnamed/part_008:67 and :90
NonEmptyWithHistograms(aggs) ==
    \/ DOMAIN aggs.counterMetrics # {}
    \/ DOMAIN aggs.gaugeMetrics # {}
    \/ DOMAIN aggs.histogramMetrics # {}

RECURSIVE SelectNonEmpty(_)
SelectNonEmpty(q) ==
    IF q = <<>> THEN <<>>
    ELSE IF NonEmptyWithHistograms(Head(q))
         THEN <<Head(q)>> \o SelectNonEmpty(Tail(q))
         ELSE SelectNonEmpty(Tail(q))

SenderInit ==
    /\ sndBatchStop = FALSE
    /\ sndStopped = FALSE
    /\ sndClosed = FALSE
    /\ sndStopPc = "idle"
    /\ sndProdPc = "idle"
    /\ sndProdMsg = Nil
    /\ sndCount = 0
    /\ enqueued = <<>>
    /\ sndPreStop = {}

\* metricSender.start called directly: wg.Add(1); go s.runMetricSender()
metricSenderStart ==
    /\ UNCHANGED outsideSender
    /\ senderPc = "init"
    /\ senderPc' = "run"
    /\ UNCHANGED <<aggsQueue, posted, senderVars>>

\* the channel send of sendAggregatedMetrics: a send on a closed channel
\* panics, a send on a full one parks the caller
QueueSend(m) ==
    IF sndClosed
    THEN /\ sndProdPc' = "panicked"
         /\ UNCHANGED <<aggsQueue, enqueued, sndProdMsg>>
    ELSE IF Len(aggsQueue) < AggsCap
    THEN /\ aggsQueue' = Append(aggsQueue, m)
         /\ enqueued' = Append(enqueued, m)
         /\ sndProdPc' = "idle"
         /\ sndProdMsg' = Nil
    ELSE /\ sndProdPc' = "blocked"
         /\ sndProdMsg' = m
         /\ UNCHANGED <<aggsQueue, enqueued>>

\* metricSender.sendAggregatedMetrics (src/metric_sender.go): the snapshots the
\* collector hands over are never nil
sendAggregatedMetrics(m) ==
    /\ UNCHANGED outsideSender
    /\ sndProdPc = "idle"
    /\ senderPc # "init"
    /\ sndCount < MaxSnapshots
    /\ sndCount' = sndCount + 1
    /\ QueueSend(m)
    /\ UNCHANGED <<senderPc, posted, sndBatchStop, sndStopped, sndClosed,
                   sndStopPc, sndPreStop>>

\* metricSender.sendAggregatedMetrics (src/unnamed/part_008): return if
\* s.stopped, else as above
sendAggregatedMetricsUnlessStopped(m) ==
    /\ UNCHANGED outsideSender
    /\ sndProdPc = "idle"
    /\ senderPc # "init"
    /\ sndCount < MaxSnapshots
    /\ sndCount' = sndCount + 1
    /\ IF sndStopped
       THEN UNCHANGED <<aggsQueue, enqueued, sndProdPc, sndProdMsg>>
       ELSE QueueSend(m)
    /\ UNCHANGED <<senderPc, posted, sndBatchStop, sndStopped, sndClosed,
                   sndStopPc, sndPreStop>>

\* the parked queue send completes once the queue has room
sendAggregatedMetricsResume ==
    /\ UNCHANGED outsideSender
    /\ sndProdPc = "blocked"
    /\ ~sndClosed
    /\ Len(aggsQueue) < AggsCap
    /\ aggsQueue' = Append(aggsQueue, sndProdMsg)
    /\ enqueued' = Append(enqueued, sndProdMsg)
    /\ sndProdPc' = "idle"
    /\ sndProdMsg' = Nil
    /\ UNCHANGED <<senderPc, posted, sndBatchStop, sndStopped, sndClosed,
                   sndStopPc, sndCount, sndPreStop>>

\* runMetricSender, "case <-s.batchStop": return (wg.Done)
runMetricSenderStop ==
    /\ UNCHANGED outsideSender
    /\ senderPc = "run"
    /\ sndBatchStop
    /\ senderPc' = "done"
    /\ UNCHANGED <<aggsQueue, posted, senderVars>>

\* runMetricSender, "case aggs := <-s.aggsQueue" (src/metric_sender.go): POST
\* a snapshot that has counters or gauges
runMetricSenderRecv ==
    /\ UNCHANGED outsideSender
    /\ senderPc = "run"
    /\ aggsQueue # <<>>
    /\ aggsQueue' = Tail(aggsQueue)
    /\ posted' = IF NonEmpty(Head(aggsQueue))
                 THEN Append(posted, Head(aggsQueue)) ELSE posted
    /\ UNCHANGED <<senderPc, senderVars>>

\* runMetricSender, "case aggs := <-s.aggsQueue" (src/unnamed/part_008)
runMetricSenderRecvWithHistograms ==
    /\ UNCHANGED outsideSender
    /\ senderPc = "run"
    /\ aggsQueue # <<>>
    /\ aggsQueue' = Tail(aggsQueue)
    /\ posted' = IF NonEmptyWithHistograms(Head(aggsQueue))
                 THEN Append(posted, Head(aggsQueue)) ELSE posted
    /\ UNCHANGED <<senderPc, senderVars>>

\* metricSender.stop (src/metric_sender.go): close(s.batchStop), then wg.Wait
metricSenderStop ==
    /\ UNCHANGED outsideSender
    /\ sndStopPc = "idle"
    /\ senderPc # "init"
    /\ sndBatchStop' = TRUE
    /\ sndStopPc' = "wait"
    /\ sndPreStop' = Range(SelectNonEmpty(enqueued))
    /\ UNCHANGED <<senderPc, aggsQueue, posted, sndStopped, sndClosed,
                   sndProdPc, sndProdMsg, sndCount, enqueued>>

\* metricSender.stop (src/metric_sender.go): wg.Wait returns when the loop has
\* exited, and stop returns
metricSenderStopReturn ==
    /\ UNCHANGED outsideSender
    /\ sndStopPc = "wait"
    /\ senderPc = "done"
    /\ sndStopPc' = "returned"
    /\ UNCHANGED <<senderPc, aggsQueue, posted, sndBatchStop, sndStopped,
                   sndClosed, sndProdPc, sndProdMsg, sndCount, enqueued,
                   sndPreStop>>

\* metricSender.stop (src/unnamed/part_008): s.stopped = true,
\* close(s.batchStop), then wg.Wait
metricSenderStopStopped ==
    /\ UNCHANGED outsideSender
    /\ sndStopPc = "idle"
    /\ senderPc # "init"
    /\ sndStopped' = TRUE
    /\ sndBatchStop' = TRUE
    /\ sndStopPc' = "wait"
    /\ sndPreStop' = Range(SelectNonEmpty(enqueued))
    /\ UNCHANGED <<senderPc, aggsQueue, posted, sndClosed, sndProdPc,
                   sndProdMsg, sndCount, enqueued>>

\* metricSender.stop (src/unnamed/part_008) once wg.Wait has returned, which
\* it does while the WaitGroup counter is 0 (the loop has exited, or start has
\* not executed its Add yet): close(s.aggsQueue), on which a parked sender
\* panics, and processAfterShutdown, which POSTs every non-empty snapshot left
\* in the queue
processAfterShutdown ==
    /\ UNCHANGED outsideSender
    /\ sndStopPc = "wait"
    /\ senderPc \in {"starting", "done"}
    /\ sndClosed' = TRUE
    /\ sndProdPc' = IF sndProdPc = "blocked" THEN "panicked" ELSE sndProdPc
    /\ posted' = posted \o SelectNonEmpty(aggsQueue)
    /\ aggsQueue' = <<>>
    /\ sndStopPc' = "returned"
    /\ UNCHANGED <<senderPc, sndBatchStop, sndStopped, sndProdMsg, sndCount,
                   enqueued, sndPreStop>>

\* the sender of src/metric_sender.go with a caller handing it snapshots
SenderNext ==
    \/ metricSenderStart
    \/ \E m \in SnapshotsIn(sndCount + 1) : sendAggregatedMetrics(m)
    \/ sendAggregatedMetricsResume
    \/ runMetricSenderStop
    \/ runMetricSenderRecv
    \/ metricSenderStop
    \/ metricSenderStopReturn

\* the sender of src/unnamed/part_008 with a caller handing it snapshots
SenderDrainNext ==
    \/ metricSenderStart
    \/ \E m \in SnapshotsIn(sndCount + 1) : sendAggregatedMetricsUnlessStopped(m)
    \/ sendAggregatedMetricsResume
    \/ runMetricSenderStop
    \/ runMetricSenderRecvWithHistograms
    \/ metricSenderStopStopped
    \/ processAfterShutdown

\* metricCollector.start, "go c.sender.start()": the goroutine that will run
\* sender.start is created; its wg.Add(1) has not run yet
goSenderStart ==
    /\ UNCHANGED outsideSender
    /\ senderPc = "init"
    /\ senderPc' = "starting"
    /\ UNCHANGED <<aggsQueue, posted, senderVars>>

\* the sender of src/unnamed/part_008 started as metricCollector.start does,
\* by "go c.sender.start()", with a caller handing it snapshots and stopping it
SenderGoNext ==
    \/ goSenderStart
    \/ SenderStart
    \/ \E m \in SnapshotsIn(sndCount + 1) : sendAggregatedMetricsUnlessStopped(m)
    \/ sendAggregatedMetricsResume
    \/ runMetricSenderStop
    \/ runMetricSenderRecvWithHistograms
    \/ metricSenderStopStopped
    \/ processAfterShutdown

\* C19: when metricSender.stop() has returned, every non-empty snapshot that
\* had been enqueued when stop() was called has been sent in a POST.
C19_SenderStopDrains ==
    sndStopPc = "returned" => \A m \in sndPreStop : m \in Range(posted)

\* C38: when metricSender.stop() has returned, the sender goroutine has
\* exited, also when stop() was called before the goroutine running
\* sender.start() had executed its WaitGroup Add.
C38_StopReturnsAfterLoopExit ==
    sndStopPc = "returned" => senderPc = "done"

\* ------------------------------------------------------------------ bucket collector
\* The collector of src/metric_collector.go:413-795, which keeps one bucket of
\* counters and gauges per interval, with the sender of src/metric_sender.go.

BucketKinds == {"counter", "gauge"}

\* the events a caller builds at the interval t (timestamp: time.Now())
BucketEventsIn(t) ==
    [kind : BucketKinds, name : MetricNames, tags : {NoTags}, value : {1},
     timestamp : {t}]

\* metricIdentifier.String of the bucket variant: the name, then each key and
\* value in iteration order, joined by "_"
BucketString(name, tags, order) ==
    Join(<<name>> \o Concat([i \in 1..Len(order) |->
                               <<order[i], tags[order[i]]>>]), <<"_">>)

createCapturedMetrics == [counters |-> EmptyMap, gauges |-> EmptyMap]

\* getBucket: the bucket of the interval, created when it is missing
getBucket(buckets, t) ==
    IF t \in DOMAIN buckets THEN buckets ELSE Put(buckets, t, createCapturedMetrics)

\* processCounterEvent of the bucket variant: add to the counter of the
\* identifier in the bucket of the event's interval, or create it
bucketProcessCounterEvent(buckets, e, order) ==
    LET withBucket == getBucket(buckets, e.timestamp)
        id == BucketString(e.name, e.tags, order)
        counters == withBucket[e.timestamp].counters IN
      [withBucket EXCEPT ![e.timestamp].counters =
         IF id \in DOMAIN counters
         THEN [counters EXCEPT ![id].value = @ + e.value]
         ELSE Put(counters, id,
                  [name |-> e.name, tags |-> e.tags, value |-> e.value])]

\* processGaugeEvent of the bucket variant: overwrite the gauge of the
\* identifier, or create it
bucketProcessGaugeEvent(buckets, e, order) ==
    LET withBucket == getBucket(buckets, e.timestamp)
        id == BucketString(e.name, e.tags, order)
        gauges == withBucket[e.timestamp].gauges IN
      [withBucket EXCEPT ![e.timestamp].gauges =
         IF id \in DOMAIN gauges
         THEN [gauges EXCEPT ![id].value = e.value]
         ELSE Put(gauges, id,
                  [name |-> e.name, tags |-> e.tags, value |-> e.value])]

\* aggregateCapturedMetrics: one message per counter and per gauge of the bucket
aggregateCapturedMetrics(timestamp, bucket) ==
    [Timestamp |-> timestamp,
     counterMetrics |-> [k \in DOMAIN bucket.counters |->
        [MetricName |-> bucket.counters[k].name,
         Value |-> bucket.counters[k].value, Tags |-> bucket.counters[k].tags]],
     gaugeMetrics |-> [k \in DOMAIN bucket.gauges |->
        [MetricName |-> bucket.gauges[k].name,
         Value |-> bucket.gauges[k].value, Tags |-> bucket.gauges[k].tags]]]

\* delete(c.capturedBuckets, t)
DeleteBucket(buckets, t) == [x \in DOMAIN buckets \ {t} |-> buckets[x]]

BucketInit ==
    /\ capturedBuckets = EmptyMap
    /\ now = 0
    /\ wg = 0

\* metricCollector.start: wg.Add(2) and the three "go" statements
bucketStart ==
    /\ UNCHANGED outsideBuckets
    /\ consPc = "init"
    /\ wg' = wg + 2
    /\ consPc' = "run"
    /\ tickPc' = "timer"
    /\ senderPc' = "starting"
    /\ UNCHANGED <<capturedBuckets, now, counterEvents, gaugeEvents, mux,
                   stopChan, tickPending, flushes, collStopPc, callerPc,
                   callerEvent, nEvents, aggsQueue, posted>>

\* wall-clock time passes into the next interval
bucketIntervalPasses ==
    /\ UNCHANGED outsideBuckets
    /\ now < MaxFlushes
    /\ now' = now + 1
    /\ UNCHANGED <<capturedBuckets, wg, counterEvents, gaugeEvents, mux,
                   stopChan, consPc, tickPc, tickPending, flushes, collStopPc,
                   callerPc, callerEvent, nEvents, senderPc, aggsQueue, posted>>

\* addCounter / addGauge of the bucket variant: a plain channel send, which
\* parks the caller while the buffer is full
bucketAddEvent(e) ==
    /\ UNCHANGED outsideBuckets
    /\ callerPc = "idle"
    /\ consPc # "init"
    /\ nEvents < MaxEvents
    /\ nEvents' = nEvents + 1
    /\ IF Len(EventChan(e.kind)) < ChanCap
       THEN /\ counterEvents' = IF e.kind = "counter"
                                THEN Append(counterEvents, e) ELSE counterEvents
            /\ gaugeEvents' = IF e.kind = "gauge"
                              THEN Append(gaugeEvents, e) ELSE gaugeEvents
            /\ UNCHANGED <<callerPc, callerEvent>>
       ELSE /\ callerPc' = "blocked"
            /\ callerEvent' = e
            /\ UNCHANGED <<counterEvents, gaugeEvents>>
    /\ UNCHANGED <<capturedBuckets, now, wg, mux, stopChan, consPc, tickPc,
                   tickPending, flushes, collStopPc, senderPc, aggsQueue,
                   posted>>

\* the parked channel send of the caller completes once the buffer has room
bucketAddEventResume ==
    /\ UNCHANGED outsideBuckets
    /\ callerPc = "blocked"
    /\ Len(EventChan(callerEvent.kind)) < ChanCap
    /\ counterEvents' = IF callerEvent.kind = "counter"
                        THEN Append(counterEvents, callerEvent)
                        ELSE counterEvents
    /\ gaugeEvents' = IF callerEvent.kind = "gauge"
                      THEN Append(gaugeEvents, callerEvent) ELSE gaugeEvents
    /\ callerPc' = "idle"
    /\ callerEvent' = Nil
    /\ UNCHANGED <<capturedBuckets, now, wg, mux, stopChan, consPc, tickPc,
                   tickPending, flushes, collStopPc, nEvents, senderPc,
                   aggsQueue, posted>>

\* processEvents, "case <-c.stopChan": return (the deferred wg.Done)
bucketProcessEventsStop ==
    /\ UNCHANGED outsideBuckets
    /\ consPc = "run"
    /\ stopChan
    /\ consPc' = "done"
    /\ wg' = wg - 1
    /\ UNCHANGED <<capturedBuckets, now, counterEvents, gaugeEvents, mux,
                   stopChan, tickPc, tickPending, flushes, collStopPc, callerPc,
                   callerEvent, nEvents, senderPc, aggsQueue, posted>>

\* processEvents, the two receive cases: one event taken from its channel and
\* applied to its bucket under the lock
bucketProcessEvents(kind) ==
    /\ UNCHANGED outsideBuckets
    /\ consPc = "run"
    /\ EventChan(kind) # <<>>
    /\ CanLock(mux)
    /\ LET e == Head(EventChan(kind)) IN
         \E order \in IterationOrders(e.tags) :
           capturedBuckets' =
             IF kind = "counter"
             THEN bucketProcessCounterEvent(capturedBuckets, e, order)
             ELSE bucketProcessGaugeEvent(capturedBuckets, e, order)
    /\ counterEvents' = IF kind = "counter"
                        THEN Tail(counterEvents) ELSE counterEvents
    /\ gaugeEvents' = IF kind = "gauge" THEN Tail(gaugeEvents) ELSE gaugeEvents
    /\ UNCHANGED <<now, wg, mux, stopChan, consPc, tickPc, tickPending, flushes,
                   collStopPc, callerPc, callerEvent, nEvents, senderPc,
                   aggsQueue, posted>>

\* sendMetricsForInterval of the bucket variant: Lock with the Unlock deferred
\* to the return; a missing bucket returns at once; else the bucket is
\* aggregated and deleted, and a snapshot with counters or gauges goes to
\* sender.sendAggregatedMetrics, a channel send that parks while the queue is
\* full, with the lock still held
bucketSendMetricsForInterval(intervalStart) ==
    /\ CanLock(mux)
    /\ IF intervalStart \notin DOMAIN capturedBuckets
       THEN /\ tickPc' = "ticker"
            /\ UNCHANGED <<capturedBuckets, aggsQueue, tickPending, mux>>
       ELSE LET aggregatedMetrics ==
                  aggregateCapturedMetrics(intervalStart,
                                           capturedBuckets[intervalStart]) IN
              /\ capturedBuckets' = DeleteBucket(capturedBuckets, intervalStart)
              /\ IF ~NonEmpty(aggregatedMetrics)
                 THEN /\ tickPc' = "ticker"
                      /\ UNCHANGED <<aggsQueue, tickPending, mux>>
                 ELSE IF Len(aggsQueue) < AggsCap
                 THEN /\ aggsQueue' = Append(aggsQueue, aggregatedMetrics)
                      /\ tickPc' = "ticker"
                      /\ UNCHANGED <<tickPending, mux>>
                 ELSE /\ tickPc' = "send"
                      /\ tickPending' = aggregatedMetrics
                      /\ mux' = "ticker"
                      /\ UNCHANGED aggsQueue

\* runTicker, "case <-c.stopChan" of either select: return (there is no
\* wg.Done in runTicker)
bucketRunTickerStop ==
    /\ UNCHANGED outsideBuckets
    /\ tickPc \in {"timer", "ticker"}
    /\ stopChan
    /\ tickPc' = "done"
    /\ UNCHANGED <<capturedBuckets, now, wg, counterEvents, gaugeEvents, mux,
                   stopChan, consPc, tickPending, flushes, collStopPc, callerPc,
                   callerEvent, nEvents, senderPc, aggsQueue, posted>>

\* runTicker, "case firstTickTime := <-timer.C": the timer fires one second
\* into the next interval, and that interval is the one processed
bucketRunTickerFirst ==
    /\ UNCHANGED outsideBuckets
    /\ tickPc = "timer"
    /\ flushes < now
    /\ flushes' = flushes + 1
    /\ bucketSendMetricsForInterval(flushes + 1)
    /\ UNCHANGED <<now, wg, counterEvents, gaugeEvents, stopChan, consPc,
                   collStopPc, callerPc, callerEvent, nEvents, senderPc, posted>>

\* runTicker, "case tickTime := <-ticker.C" of the inner loop
bucketRunTickerPeriodic ==
    /\ UNCHANGED outsideBuckets
    /\ tickPc = "ticker"
    /\ flushes < now
    /\ flushes' = flushes + 1
    /\ bucketSendMetricsForInterval(flushes + 1)
    /\ UNCHANGED <<now, wg, counterEvents, gaugeEvents, stopChan, consPc,
                   collStopPc, callerPc, callerEvent, nEvents, senderPc, posted>>

\* the parked queue send of sendMetricsForInterval completes, and the deferred
\* Unlock runs
bucketRunTickerResume ==
    /\ UNCHANGED outsideBuckets
    /\ tickPc = "send"
    /\ Len(aggsQueue) < AggsCap
    /\ aggsQueue' = Append(aggsQueue, tickPending)
    /\ tickPending' = NoSnapshot
    /\ mux' = "free"
    /\ tickPc' = "ticker"
    /\ UNCHANGED <<capturedBuckets, now, wg, counterEvents, gaugeEvents,
                   stopChan, consPc, flushes, collStopPc, callerPc, callerEvent,
                   nEvents, senderPc, posted>>

\* metricCollector.stop of the bucket variant: close(c.stopChan), then
\* c.wg.Wait(). start() added 2 and only processEvents calls Done, so the
\* counter never reaches 0 and the statements after the Wait are never run.
bucketStop ==
    /\ UNCHANGED outsideBuckets
    /\ collStopPc = "idle"
    /\ consPc # "init"
    /\ stopChan' = TRUE
    /\ collStopPc' = "wait"
    /\ UNCHANGED <<capturedBuckets, now, wg, counterEvents, gaugeEvents, mux,
                   consPc, tickPc, tickPending, flushes, callerPc, callerEvent,
                   nEvents, senderPc, aggsQueue, posted>>

BucketNext ==
    \/ bucketStart
    \/ bucketIntervalPasses
    \/ \E e \in BucketEventsIn(now) : bucketAddEvent(e)
    \/ bucketAddEventResume
    \/ bucketProcessEventsStop
    \/ \E kind \in BucketKinds : bucketProcessEvents(kind)
    \/ bucketRunTickerStop
    \/ bucketRunTickerFirst
    \/ bucketRunTickerPeriodic
    \/ bucketRunTickerResume
    \/ SenderStart
    \/ runMetricSenderRecv
    \/ bucketStop

\* C30: slow delivery never blocks ingestion: while runTicker is parked in the
\* hand-over of a snapshot to the sender's full queue, the aggregation lock is
\* free, and the event consumer can take an event from a non-empty channel and
\* apply it under the lock.
C30_SlowDeliveryDoesNotBlockIngestion ==
    tickPc = "send" =>
        /\ mux = "free"
        /\ \A kind \in BucketKinds :
             (consPc = "run" /\ EventChan(kind) # <<>>)
                 => ENABLED bucketProcessEvents(kind)

\* C31: a flush triggered by the first-shot timer or the periodic ticker at fire
\* time t processes the window before the one t lies in (a window that has
\* completely elapsed at t), and never reads the window still open at t. The
\* fire time of the flush counted by flushes' lies in the interval flushes'.
C31_FlushReadsClosedWindow ==
    [][flushes' = flushes + 1 =>
         /\ (flushes' - 1) \notin DOMAIN capturedBuckets'
         /\ flushes' \in DOMAIN capturedBuckets
               => /\ flushes' \in DOMAIN capturedBuckets'
                  /\ capturedBuckets'[flushes'] = capturedBuckets[flushes']]_vars

\* The collector of src/metric_collector.go:797-1200: the bucket collector
\* whose flush replaces the bucket of the elapsed window by an empty one and
\* unlocks before the hand-over. start, stop up to wg.Wait, addCounter,
\* addGauge, processEvents and getBucket are those of the version above.

\* cleanupOldBuckets: delete the buckets before the interval that hold neither
\* a counter nor a gauge
cleanupOldBuckets(buckets, currentIntervalStart) ==
    LET toDelete == {ts \in DOMAIN buckets :
                       /\ ts < currentIntervalStart
                       /\ DOMAIN buckets[ts].counters = {}
                       /\ DOMAIN buckets[ts].gauges = {}} IN
      [ts \in DOMAIN buckets \ toDelete |-> buckets[ts]]

\* sendMetricsForInterval: under the lock the bucket of the interval is taken
\* and replaced by an empty one (an empty one is created when it is missing);
\* after the Unlock a snapshot with counters or gauges goes to
\* sender.sendAggregatedMetrics, a channel send that parks while the queue is
\* full; then cleanupOldBuckets(intervalStart)
replacingSendMetricsForInterval(intervalStart) ==
    LET found == intervalStart \in DOMAIN capturedBuckets
        replaced == Put(capturedBuckets, intervalStart, createCapturedMetrics)
        metricsToSend ==
            IF found
            THEN aggregateCapturedMetrics(intervalStart,
                                          capturedBuckets[intervalStart])
            ELSE NoSnapshot IN
      /\ CanLock(mux)
      /\ UNCHANGED mux
      /\ IF found /\ NonEmpty(metricsToSend)
         THEN IF Len(aggsQueue) < AggsCap
              THEN /\ aggsQueue' = Append(aggsQueue, metricsToSend)
                   /\ capturedBuckets' = cleanupOldBuckets(replaced, intervalStart)
                   /\ tickPc' = "ticker"
                   /\ UNCHANGED tickPending
              ELSE /\ capturedBuckets' = replaced
                   /\ tickPending' = metricsToSend
                   /\ tickPc' = "send"
                   /\ UNCHANGED aggsQueue
         ELSE /\ capturedBuckets' = cleanupOldBuckets(replaced, intervalStart)
              /\ tickPc' = "ticker"
              /\ UNCHANGED <<aggsQueue, tickPending>>

\* runTicker, "case <-c.stopChan" of either select: return (the deferred
\* wg.Done)
replacingRunTickerStop ==
    /\ UNCHANGED outsideBuckets
    /\ tickPc \in {"timer", "ticker"}
    /\ stopChan
    /\ tickPc' = "done"
    /\ wg' = wg - 1
    /\ UNCHANGED <<capturedBuckets, now, counterEvents, gaugeEvents, mux,
                   stopChan, consPc, tickPending, flushes, collStopPc, callerPc,
                   callerEvent, nEvents, senderPc, aggsQueue, posted>>

\* runTicker, "case firstTickTime := <-timer.C": the timer fires one second
\* into the next interval, and the interval before that one is processed
replacingRunTickerFirst ==
    /\ UNCHANGED outsideBuckets
    /\ tickPc = "timer"
    /\ flushes < now
    /\ flushes' = flushes + 1
    /\ replacingSendMetricsForInterval(flushes)
    /\ UNCHANGED <<now, wg, counterEvents, gaugeEvents, stopChan, consPc,
                   collStopPc, callerPc, callerEvent, nEvents, senderPc, posted>>

\* runTicker, "case tickTime := <-ticker.C" of the inner loop
replacingRunTickerPeriodic ==
    /\ UNCHANGED outsideBuckets
    /\ tickPc = "ticker"
    /\ flushes < now
    /\ flushes' = flushes + 1
    /\ replacingSendMetricsForInterval(flushes)
    /\ UNCHANGED <<now, wg, counterEvents, gaugeEvents, stopChan, consPc,
                   collStopPc, callerPc, callerEvent, nEvents, senderPc, posted>>

\* the parked queue send of sendMetricsForInterval completes, and
\* cleanupOldBuckets runs for the interval that was processed
replacingRunTickerResume ==
    /\ UNCHANGED outsideBuckets
    /\ tickPc = "send"
    /\ Len(aggsQueue) < AggsCap
    /\ CanLock(mux)
    /\ aggsQueue' = Append(aggsQueue, tickPending)
    /\ capturedBuckets' = cleanupOldBuckets(capturedBuckets, tickPending.Timestamp)
    /\ tickPending' = NoSnapshot
    /\ tickPc' = "ticker"
    /\ UNCHANGED <<now, wg, counterEvents, gaugeEvents, mux, stopChan, consPc,
                   flushes, collStopPc, callerPc, callerEvent, nEvents,
                   senderPc, posted>>

ReplacingNext ==
    \/ bucketStart
    \/ bucketIntervalPasses
    \/ \E e \in BucketEventsIn(now) : bucketAddEvent(e)
    \/ bucketAddEventResume
    \/ bucketProcessEventsStop
    \/ \E kind \in BucketKinds : bucketProcessEvents(kind)
    \/ replacingRunTickerStop
    \/ replacingRunTickerFirst
    \/ replacingRunTickerPeriodic
    \/ replacingRunTickerResume
    \/ SenderStart
    \/ runMetricSenderRecv
    \/ bucketStop

\* C33: an event applied after the flush of the window of its timestamp is
\* included in the next periodic flush: when a flush of the timer or the
\* ticker has run, no bucket of its window or of an earlier one still holds
\* a counter or a gauge.
C33_LateEventInNextFlush ==
    [][flushes' = flushes + 1 =>
         \A ts \in DOMAIN capturedBuckets' :
            ts <= flushes =>
               /\ DOMAIN capturedBuckets'[ts].counters = {}
               /\ DOMAIN capturedBuckets'[ts].gauges = {}]_vars

\* ------------------------------------------------------------------ agent
\* The global agent of src/agent.go with the public wrappers of src/logs.go and
\* src/unnamed/part_002, and the global metrics handler of src/metrics.go.

\* number of public calls in one run
MaxCalls == 4
\* capacity of metricsHandler.metricsQueue (1000 in src/metrics.go:144, scaled)
MetricsQueueCap == 2

LEVEL_INFO == "INFO"
LEVEL_WARN == "WARNING"
LEVEL_ERROR == "ERROR"
LEVEL_DEBUG == "DEBUG"
LEVEL_TRACE == "TRACE"
\* LogLevel is a string type: the five constants and one value that is none of them
LogLevels ==
    {LEVEL_INFO, LEVEL_WARN, LEVEL_ERROR, LEVEL_DEBUG, LEVEL_TRACE, "FATAL"}

\* NewNoopAgentConfig
NewNoopAgentConfig ==
    [level |-> LEVEL_TRACE, passthrough |-> TRUE, noopLogs |-> TRUE,
     noopErrors |-> TRUE, noopMetrics |-> TRUE]

\* the configurations handed to Init
AgentConfigs ==
    [level : LogLevels, passthrough : BOOLEAN, noopLogs : BOOLEAN,
     noopErrors : {FALSE}, noopMetrics : {FALSE}]
      \cup {NewNoopAgentConfig}

\* the names handed to EmitMetric
EmitNames == {<<>>, <<"a">>}

\* the nil pointers of the two globals
NoAgent == [id |-> 0]
NoHandler == [pc |-> "nil"]

NoCall == [op |-> "none", outcome |-> "returned", level |-> ""]

\* getLevelInt
getLevelInt(level) ==
    CASE level = LEVEL_ERROR -> 5
      [] level = LEVEL_WARN -> 4
      [] level = LEVEL_INFO -> 3
      [] level = LEVEL_DEBUG -> 2
      [] level = LEVEL_TRACE -> 1
      [] OTHER -> 0

\* isLevelEnabled without the comparison
isLevelEnabled_NoFilter(level, minLevel) == TRUE

\* isLevelEnabled
isLevelEnabled(level, minLevel) == getLevelInt(level) >= getLevelInt(minLevel)

\* writeLogPassthrough: one line for each of the five levels, nothing for any
\* other value
writeLogPassthrough(out, level, message) ==
    IF level \in {LEVEL_ERROR, LEVEL_WARN, LEVEL_INFO, LEVEL_DEBUG, LEVEL_TRACE}
    THEN Append(out, [type |-> "log", level |-> level, body |-> message])
    ELSE out

\* newAgent: the fields copied from the config; noopAlerts is not set
newAgent(config, id) ==
    [id |-> id, level |-> config.level, passthrough |-> config.passthrough,
     noopLogs |-> config.noopLogs, noopErrors |-> config.noopErrors,
     noopMetrics |-> config.noopMetrics, noopAlerts |-> FALSE]

AgentInitState ==
    /\ globalAgent = NoAgent
    /\ agentsCreated = 0
    /\ batcherStarts = 0
    /\ batcherStops = 0
    /\ handed = <<>>
    /\ printed = <<>>
    /\ globalMetricsHandler = NoHandler
    /\ metricsQueue = <<>>
    /\ metricsBatch = <<>>
    /\ metricsSent = <<>>
    /\ lastCall = NoCall
    /\ nCalls = 0

\* a public call is made by the program, which a panic has ended
CanCall ==
    /\ lastCall.outcome # "panicked"
    /\ nCalls < MaxCalls

\* agent.start: returns if all four noop flags are set, else batcher.start
agentStart(a) ==
    IF a.noopLogs /\ a.noopErrors /\ a.noopMetrics /\ a.noopAlerts
    THEN batcherStarts
    ELSE batcherStarts + 1

\* Init without the check of globalAgent
AgentInit_Overwrites(config) ==
    /\ UNCHANGED outsideAgent
    /\ CanCall
    /\ nCalls' = nCalls + 1
    /\ lastCall' = [op |-> "Init", outcome |-> "returned", level |-> config.level]
    /\ LET a == newAgent(config, agentsCreated + 1) IN
         /\ globalAgent' = a
         /\ agentsCreated' = agentsCreated + 1
         /\ batcherStarts' = agentStart(a)
    /\ UNCHANGED <<batcherStops, handed, printed, globalMetricsHandler,
                   metricsQueue, metricsBatch, metricsSent>>

\* Init: return if globalAgent is set, else newAgent and start
AgentInit(config) ==
    /\ UNCHANGED outsideAgent
    /\ CanCall
    /\ nCalls' = nCalls + 1
    /\ lastCall' = [op |-> "Init", outcome |-> "returned", level |-> config.level]
    /\ IF globalAgent # NoAgent
       THEN UNCHANGED <<globalAgent, agentsCreated, batcherStarts>>
       ELSE LET a == newAgent(config, agentsCreated + 1) IN
              /\ globalAgent' = a
              /\ agentsCreated' = agentsCreated + 1
              /\ batcherStarts' = agentStart(a)
    /\ UNCHANGED <<batcherStops, handed, printed, globalMetricsHandler,
                   metricsQueue, metricsBatch, metricsSent>>

\* Shutdown: nil if globalAgent is nil, else agent.shutdown, which is
\* batcher.stop: close(b.batchStop), a panic when it is closed already
AgentShutdown ==
    /\ UNCHANGED outsideAgent
    /\ CanCall
    /\ nCalls' = nCalls + 1
    /\ IF globalAgent = NoAgent
       THEN /\ lastCall' = [op |-> "Shutdown", outcome |-> "returned", level |-> ""]
            /\ UNCHANGED batcherStops
       ELSE IF batcherStops > 0
       THEN /\ lastCall' = [op |-> "Shutdown", outcome |-> "panicked", level |-> ""]
            /\ UNCHANGED batcherStops
       ELSE /\ lastCall' = [op |-> "Shutdown", outcome |-> "returned", level |-> ""]
            /\ batcherStops' = batcherStops + 1
    /\ UNCHANGED <<globalAgent, agentsCreated, batcherStarts, handed, printed,
                   globalMetricsHandler, metricsQueue, metricsBatch, metricsSent>>

\* agent.sendLog: the level filter, the console passthrough, the noop switch,
\* then batcher.addLog
sendLog(a, level, message) ==
    IF ~isLevelEnabled(level, a.level)
    THEN UNCHANGED <<printed, handed>>
    ELSE /\ printed' = IF a.passthrough
                       THEN writeLogPassthrough(printed, level, message)
                       ELSE printed
         /\ handed' = IF a.noopLogs
                      THEN handed
                      ELSE Append(handed, [type |-> "log", level |-> level,
                                           body |-> message])

\* Log: return if globalAgent is nil, else sendLog
Log(level, message) ==
    /\ UNCHANGED outsideAgent
    /\ CanCall
    /\ nCalls' = nCalls + 1
    /\ lastCall' = [op |-> "Log", outcome |-> "returned", level |-> level]
    /\ IF globalAgent = NoAgent
       THEN UNCHANGED <<printed, handed>>
       ELSE sendLog(globalAgent, level, message)
    /\ UNCHANGED <<globalAgent, agentsCreated, batcherStarts, batcherStops,
                   globalMetricsHandler, metricsQueue, metricsBatch, metricsSent>>

\* agent.sendError: the console passthrough, the noop switch, then
\* batcher.addError (no level filter)
sendError(a, message) ==
    /\ printed' = IF a.passthrough
                  THEN Append(printed, [type |-> "error", level |-> "",
                                        body |-> message])
                  ELSE printed
    /\ handed' = IF a.noopErrors
                 THEN handed
                 ELSE Append(handed, [type |-> "error", level |-> "",
                                      body |-> message])

\* CaptureError: return if globalAgent is nil or the error is nil, else sendError
CaptureError(isNil, message) ==
    /\ UNCHANGED outsideAgent
    /\ CanCall
    /\ nCalls' = nCalls + 1
    /\ lastCall' = [op |-> "CaptureError", outcome |-> "returned", level |-> ""]
    /\ IF globalAgent = NoAgent \/ isNil
       THEN UNCHANGED <<printed, handed>>
       ELSE sendError(globalAgent, message)
    /\ UNCHANGED <<globalAgent, agentsCreated, batcherStarts, batcherStops,
                   globalMetricsHandler, metricsQueue, metricsBatch, metricsSent>>

\* agent.sendAlert on the global agent: the console passthrough, the noop
\* switch, then batcher.addAlert
sendAlert(title) ==
    /\ UNCHANGED outsideAgent
    /\ CanCall
    /\ globalAgent # NoAgent
    /\ nCalls' = nCalls + 1
    /\ lastCall' = [op |-> "sendAlert", outcome |-> "returned", level |-> ""]
    /\ printed' = IF globalAgent.passthrough
                  THEN Append(printed, [type |-> "alert", level |-> "",
                                        body |-> title])
                  ELSE printed
    /\ handed' = IF globalAgent.noopAlerts
                 THEN handed
                 ELSE Append(handed, [type |-> "alert", level |-> "",
                                      body |-> title])
    /\ UNCHANGED <<globalAgent, agentsCreated, batcherStarts, batcherStops,
                   globalMetricsHandler, metricsQueue, metricsBatch, metricsSent>>

\* InitMetricsHandler: newMetricsHandler, which starts its batcher, assigned to
\* the global without a check
InitMetricsHandler(noop) ==
    /\ UNCHANGED outsideAgent
    /\ CanCall
    /\ nCalls' = nCalls + 1
    /\ lastCall' = [op |-> "InitMetricsHandler", outcome |-> "returned",
                    level |-> ""]
    /\ globalMetricsHandler' = [noop |-> noop, batchStop |-> FALSE, pc |-> "run"]
    /\ metricsQueue' = <<>>
    /\ metricsBatch' = <<>>
    /\ UNCHANGED <<globalAgent, agentsCreated, batcherStarts, batcherStops,
                   handed, printed, metricsSent>>

\* ShutdownMetricsHandler: globalMetricsHandler.shutdown() with no nil check;
\* shutdown calls stopBatcher, close(m.batchStop), which dereferences the nil
\* handler, and panics on a channel that is closed already
ShutdownMetricsHandler ==
    /\ UNCHANGED outsideAgent
    /\ CanCall
    /\ nCalls' = nCalls + 1
    /\ IF globalMetricsHandler = NoHandler
       THEN /\ lastCall' = [op |-> "ShutdownMetricsHandler",
                            outcome |-> "panicked", level |-> ""]
            /\ UNCHANGED globalMetricsHandler
       ELSE IF globalMetricsHandler.batchStop
       THEN /\ lastCall' = [op |-> "ShutdownMetricsHandler",
                            outcome |-> "panicked", level |-> ""]
            /\ UNCHANGED globalMetricsHandler
       ELSE /\ lastCall' = [op |-> "ShutdownMetricsHandler",
                            outcome |-> "returned", level |-> ""]
            /\ globalMetricsHandler' =
                 [globalMetricsHandler EXCEPT !.batchStop = TRUE]
    /\ UNCHANGED <<globalAgent, agentsCreated, batcherStarts, batcherStops,
                   handed, printed, metricsQueue, metricsBatch, metricsSent>>

\* metricsHandler.capture: return if noop or the name is empty, else a select
\* that sends on metricsQueue or, when it is full, drops the metric
capture(m, name) ==
    IF m.noop \/ name = <<>> \/ Len(metricsQueue) >= MetricsQueueCap
    THEN metricsQueue
    ELSE Append(metricsQueue, name)

\* EmitMetric: return if globalMetricsHandler is nil, else capture
EmitMetric(name) ==
    /\ UNCHANGED outsideAgent
    /\ CanCall
    /\ nCalls' = nCalls + 1
    /\ lastCall' = [op |-> "EmitMetric", outcome |-> "returned", level |-> ""]
    /\ metricsQueue' = IF globalMetricsHandler = NoHandler
                       THEN metricsQueue
                       ELSE capture(globalMetricsHandler, name)
    /\ UNCHANGED <<globalAgent, agentsCreated, batcherStarts, batcherStops,
                   handed, printed, globalMetricsHandler, metricsBatch,
                   metricsSent>>

\* metricsHandler.runBatcher, "case <-m.batchStop": send the batch, return
runBatcherStop ==
    /\ UNCHANGED outsideAgent
    /\ globalMetricsHandler # NoHandler
    /\ globalMetricsHandler.pc = "run"
    /\ globalMetricsHandler.batchStop
    /\ globalMetricsHandler' = [globalMetricsHandler EXCEPT !.pc = "done"]
    /\ metricsSent' = IF metricsBatch # <<>>
                      THEN Append(metricsSent, metricsBatch) ELSE metricsSent
    /\ metricsBatch' = <<>>
    /\ UNCHANGED <<globalAgent, agentsCreated, batcherStarts, batcherStops,
                   handed, printed, metricsQueue, lastCall, nCalls>>

\* metricsHandler.runBatcher, "case msg := <-m.metricsQueue": append, and send
\* the batch when it has reached maxBatchSize
runBatcherRecv ==
    /\ UNCHANGED outsideAgent
    /\ globalMetricsHandler # NoHandler
    /\ globalMetricsHandler.pc = "run"
    /\ metricsQueue # <<>>
    /\ metricsQueue' = Tail(metricsQueue)
    /\ LET batch == Append(metricsBatch, Head(metricsQueue)) IN
         IF Len(batch) >= maxBatchSize
         THEN /\ metricsSent' = Append(metricsSent, batch)
              /\ metricsBatch' = <<>>
         ELSE /\ metricsBatch' = batch
              /\ UNCHANGED metricsSent
    /\ UNCHANGED <<globalAgent, agentsCreated, batcherStarts, batcherStops,
                   handed, printed, globalMetricsHandler, lastCall, nCalls>>

\* metricsHandler.runBatcher, "case <-ticker.C": send a non-empty batch
runBatcherTick ==
    /\ UNCHANGED outsideAgent
    /\ globalMetricsHandler # NoHandler
    /\ globalMetricsHandler.pc = "run"
    /\ metricsBatch # <<>>
    /\ metricsSent' = Append(metricsSent, metricsBatch)
    /\ metricsBatch' = <<>>
    /\ UNCHANGED <<globalAgent, agentsCreated, batcherStarts, batcherStops,
                   handed, printed, globalMetricsHandler, metricsQueue, lastCall,
                   nCalls>>

AgentNext ==
    \/ \E config \in AgentConfigs : AgentInit(config)
    \/ AgentShutdown
    \/ \E level \in LogLevels : Log(level, <<"m">>)
    \/ \E isNil \in BOOLEAN : CaptureError(isNil, <<"m">>)
    \/ sendAlert(<<"m">>)
    \/ \E noop \in BOOLEAN : InitMetricsHandler(noop)
    \/ ShutdownMetricsHandler
    \/ \E name \in EmitNames : EmitMetric(name)
    \/ runBatcherStop
    \/ runBatcherRecv
    \/ runBatcherTick

\* ------------------------------------------------------------------ agent claims
\* a public call other than an initialisation is made in this step
PublicCall(ops) == nCalls' = nCalls + 1 /\ lastCall'.op \in ops

\* C22: before the initialisation, every public call (log, error capture,
\* metric emission, Shutdown) returns without panicking, enqueues nothing and
\* changes no state: for the agent before Init, for the metrics handler before
\* InitMetricsHandler.
C22_NoopBeforeInit ==
    [][/\ (globalAgent = NoAgent /\ PublicCall({"Log", "CaptureError", "Shutdown"}))
           => /\ lastCall'.outcome = "returned"
              /\ UNCHANGED <<globalAgent, agentsCreated, batcherStarts,
                             batcherStops, handed, printed>>
       /\ (globalMetricsHandler = NoHandler
             /\ PublicCall({"EmitMetric", "ShutdownMetricsHandler"}))
           => /\ lastCall'.outcome = "returned"
              /\ UNCHANGED <<globalMetricsHandler, metricsQueue, metricsBatch,
                             metricsSent>>]_vars

\* C26: Init is idempotent: once the global agent is set, no step replaces it,
\* creates another agent or starts the batcher's loops again.
C26_InitIdempotent ==
    [][globalAgent # NoAgent =>
         UNCHANGED <<globalAgent, agentsCreated, batcherStarts>>]_vars

\* a second Init, with a configuration other than the first one's, has returned
C26_Witness ==
    /\ lastCall.op = "Init"
    /\ nCalls >= 2
    /\ globalAgent # NoAgent
    /\ globalAgent.level # lastCall.level
    /\ batcherStarts = 1

\* the levels in the order TRACE < DEBUG < INFO < WARNING < ERROR
LevelOrder == <<"TRACE", "DEBUG", "INFO", "WARNING", "ERROR">>
Rank(level) == CHOOSE i \in 1..Len(LevelOrder) : LevelOrder[i] = level

\* C27: a log goes to the console passthrough or to the batcher only if the
\* rank of its level is at least the rank of the agent's minimum level, under
\* TRACE < DEBUG < INFO < WARNING < ERROR: a Log call below the minimum level
\* leaves both untouched.
C27_LevelFilter ==
    [][(/\ globalAgent # NoAgent
        /\ PublicCall({"Log"})
        /\ lastCall'.level \in Range(LevelOrder)
        /\ globalAgent.level \in Range(LevelOrder)
        /\ Rank(lastCall'.level) < Rank(globalAgent.level))
         => UNCHANGED <<printed, handed>>]_vars

\* with a passthrough agent at WARNING, an ERROR log was printed and handed to
\* the batcher, and then an INFO log was dropped
C27_Witness ==
    /\ globalAgent # NoAgent
    /\ globalAgent.level = "WARNING"
    /\ globalAgent.passthrough
    /\ lastCall.op = "Log"
    /\ lastCall.level = "INFO"
    /\ Len(handed) = 1 /\ handed[1].level = "ERROR"
    /\ Len(printed) = 1 /\ printed[1].level = "ERROR"

\* C35: an agent created from NewNoopAgentConfig is fully disabled: start()
\* has launched no batcher loop, and no log, error or alert submitted
\* afterwards has been handed to the batcher.
C35_NoopAgentDisabled ==
    (/\ globalAgent # NoAgent
     /\ globalAgent = newAgent(NewNoopAgentConfig, globalAgent.id))
        => /\ batcherStarts = 0
           /\ handed = <<>>

\* ------------------------------------------------------------------ event handler
\* EventHandler of src/event.go.

\* capacity of EventHandler.newEvents (1000 in src/event.go:120, scaled)
EventChanCap == 2
\* number of CaptureError / CaptureMessage calls in one run
MaxCaptures == 3
\* number of options handed to NewEventHandler
MaxOptions == 2

EVENTS_PATH == <<"/", "e">>

\* the options: WithEventHandlerURL and WithEventHandlerToken with an empty
\* and a non-empty string, and WithEventHandlerNoop
EventHandlerOptionsIn ==
    {[opt |-> "url", arg |-> <<>>], [opt |-> "url", arg |-> <<"u">>],
     [opt |-> "token", arg |-> <<>>], [opt |-> "token", arg |-> <<"t">>],
     [opt |-> "noop", arg |-> <<>>]}

OptionLists == UNION {[1..n -> EventHandlerOptionsIn] : n \in 0..MaxOptions}

\* the options NewEventHandler starts from: the default URL, no token
DefaultOptions == [url |-> <<"h">> \o EVENTS_PATH, token |-> <<>>, noop |-> FALSE]

\* one option applied: WithEventHandlerURL appends EVENTS_PATH to its argument
ApplyOption(options, o) ==
    CASE o.opt = "url" -> [options EXCEPT !.url = o.arg \o EVENTS_PATH]
      [] o.opt = "token" -> [options EXCEPT !.token = o.arg]
      [] o.opt = "noop" -> [options EXCEPT !.noop = TRUE]

\* "for _, opt := range opts { opt(options) }"
RECURSIVE ApplyOptions(_, _)
ApplyOptions(options, opts) ==
    IF opts = <<>> THEN options
    ELSE ApplyOptions(ApplyOption(options, Head(opts)), Tail(opts))

\* the two checks of NewEventHandler without the one of the token
OptionsError_NoTokenCheck(options) == options.url = <<>>

\* the two checks of NewEventHandler
OptionsError(options) == options.url = <<>> \/ options.token = <<>>

EventInit ==
    /\ ehOptions = DefaultOptions
    /\ ehResult = "none"
    /\ ehLoopPc = "none"
    /\ newEvents = <<>>
    /\ batchedEvents = <<>>
    /\ ehStop = FALSE
    /\ ehShutdownPc = "idle"
    /\ ehPosts = <<>>
    /\ ehAccepted = {}
    /\ ehCaptures = 0
    /\ ehRejected = FALSE
    /\ ehAttempts = <<>>

\* NewEventHandler: apply the options; an error if the URL or the token is
\* empty; else the handler, with handler.start() run (wg.Add(1), go func)
NewEventHandler(opts) ==
    /\ UNCHANGED outsideEvents
    /\ ehResult = "none"
    /\ ehOptions' = ApplyOptions(DefaultOptions, opts)
    /\ IF OptionsError(ehOptions')
       THEN /\ ehResult' = "error"
            /\ UNCHANGED ehLoopPc
       ELSE /\ ehResult' = "started"
            /\ ehLoopPc' = "run"
    /\ UNCHANGED <<newEvents, batchedEvents, ehStop, ehShutdownPc, ehPosts,
                   ehAccepted, ehCaptures, ehRejected,
                   ehAttempts>>

\* CaptureError / CaptureMessage: nil if noop; else a select that sends the
\* parsed event on newEvents and returns nil, or returns an error when the
\* channel is full
Capture(kind) ==
    /\ UNCHANGED outsideEvents
    /\ ehResult = "started"
    /\ ehShutdownPc # "panicked"
    /\ ehCaptures < MaxCaptures
    /\ ehCaptures' = ehCaptures + 1
    /\ IF ehOptions.noop
       THEN UNCHANGED <<newEvents, ehAccepted>>
       ELSE IF Len(newEvents) < EventChanCap
       THEN /\ newEvents' = Append(newEvents, [id |-> ehCaptures + 1, kind |-> kind])
            /\ ehAccepted' = ehAccepted \cup {ehCaptures + 1}
       ELSE UNCHANGED <<newEvents, ehAccepted>>
    /\ UNCHANGED <<ehOptions, ehResult, ehLoopPc, batchedEvents, ehStop,
                   ehShutdownPc, ehPosts, ehRejected,
                   ehAttempts>>

\* the last two entries of a history
LastTwo(s) == IF Len(s) > 2 THEN Tail(s) ELSE s

\* sendBatch clearing batchedEvents after a failed request too
sendBatch_ClearsOnError(ok) ==
    IF batchedEvents = <<>>
    THEN UNCHANGED <<batchedEvents, ehPosts, ehRejected, ehAttempts>>
    ELSE /\ ehAttempts' = LastTwo(Append(ehAttempts,
                                         [items |-> batchedEvents, ok |-> ok]))
         /\ batchedEvents' = <<>>
         /\ IF ok
            THEN /\ ehPosts' = Append(ehPosts, batchedEvents)
                 /\ UNCHANGED ehRejected
            ELSE /\ ehRejected' = TRUE
                 /\ UNCHANGED ehPosts

\* sendBatch: the POST of batchedEvents; the batch is cleared on a 2xx answer
\* and kept on any error
sendBatch(ok) ==
    IF batchedEvents = <<>>
    THEN UNCHANGED <<batchedEvents, ehPosts, ehRejected, ehAttempts>>
    ELSE /\ ehAttempts' = LastTwo(Append(ehAttempts,
                                         [items |-> batchedEvents, ok |-> ok]))
         /\ IF ok
            THEN /\ ehPosts' = Append(ehPosts, batchedEvents)
                 /\ batchedEvents' = <<>>
                 /\ UNCHANGED ehRejected
            ELSE /\ ehRejected' = TRUE
                 /\ UNCHANGED <<batchedEvents, ehPosts>>

\* start, "case <-h.stop": processRemainingEvents is entered
startStop ==
    /\ UNCHANGED outsideEvents
    /\ ehLoopPc = "run"
    /\ ehStop
    /\ ehLoopPc' = "remaining"
    /\ UNCHANGED <<ehOptions, ehResult, newEvents, batchedEvents, ehStop,
                   ehShutdownPc, ehPosts, ehAccepted, ehCaptures, ehRejected,
                   ehAttempts>>

\* start, "case data := <-h.newEvents": append to batchedEvents
startRecv ==
    /\ UNCHANGED outsideEvents
    /\ ehLoopPc = "run"
    /\ newEvents # <<>>
    /\ batchedEvents' = Append(batchedEvents, Head(newEvents))
    /\ newEvents' = Tail(newEvents)
    /\ UNCHANGED <<ehOptions, ehResult, ehLoopPc, ehStop, ehShutdownPc,
                   ehPosts, ehAccepted, ehCaptures, ehRejected,
                   ehAttempts>>

\* start, "case <-ticker.C": sendBatch if batchedEvents is not empty
startTick(ok) ==
    /\ UNCHANGED outsideEvents
    /\ ehLoopPc = "run"
    /\ batchedEvents # <<>>
    /\ sendBatch(ok)
    /\ UNCHANGED <<ehOptions, ehResult, ehLoopPc, newEvents, ehStop,
                   ehShutdownPc, ehAccepted, ehCaptures>>

\* processRemainingEvents, "case data := <-h.newEvents"
processRemainingEventsRecv ==
    /\ UNCHANGED outsideEvents
    /\ ehLoopPc = "remaining"
    /\ newEvents # <<>>
    /\ batchedEvents' = Append(batchedEvents, Head(newEvents))
    /\ newEvents' = Tail(newEvents)
    /\ UNCHANGED <<ehOptions, ehResult, ehLoopPc, ehStop, ehShutdownPc,
                   ehPosts, ehAccepted, ehCaptures, ehRejected,
                   ehAttempts>>

\* processRemainingEvents, "default": the channel is empty; sendBatch if
\* batchedEvents is not empty, and the goroutine returns (wg.Done)
processRemainingEventsDefault(ok) ==
    /\ UNCHANGED outsideEvents
    /\ ehLoopPc = "remaining"
    /\ newEvents = <<>>
    /\ sendBatch(ok)
    /\ ehLoopPc' = "done"
    /\ UNCHANGED <<ehOptions, ehResult, newEvents, ehStop, ehShutdownPc,
                   ehAccepted, ehCaptures>>

\* Shutdown: close(h.stop), a panic when it is closed already; then wg.Wait
EventShutdown ==
    /\ UNCHANGED outsideEvents
    /\ ehResult = "started"
    /\ ehShutdownPc \in {"idle", "returned"}
    /\ IF ehStop
       THEN /\ ehShutdownPc' = "panicked"
            /\ UNCHANGED ehStop
       ELSE /\ ehStop' = TRUE
            /\ ehShutdownPc' = "wait"
    /\ UNCHANGED <<ehOptions, ehResult, ehLoopPc, newEvents, batchedEvents,
                   ehPosts, ehAccepted, ehCaptures, ehRejected,
                   ehAttempts>>

\* Shutdown: wg.Wait returns when the goroutine has returned
EventShutdownReturn ==
    /\ UNCHANGED outsideEvents
    /\ ehShutdownPc = "wait"
    /\ ehLoopPc = "done"
    /\ ehShutdownPc' = "returned"
    /\ UNCHANGED <<ehOptions, ehResult, ehLoopPc, newEvents, batchedEvents,
                   ehStop, ehPosts, ehAccepted, ehCaptures, ehRejected,
                   ehAttempts>>

\* the steps of the goroutine of start
EventLoop ==
    \/ startStop
    \/ startRecv
    \/ \E ok \in BOOLEAN : startTick(ok)
    \/ processRemainingEventsRecv
    \/ \E ok \in BOOLEAN : processRemainingEventsDefault(ok)

EventNext ==
    \/ \E opts \in OptionLists : NewEventHandler(opts)
    \/ \E kind \in {"error", "message"} : Capture(kind)
    \/ EventLoop
    \/ EventShutdown
    \/ EventShutdownReturn

\* ------------------------------------------------------------------ event handler claims
\* C23: NewEventHandler returns an error and starts no goroutine whenever the
\* token or the URL is empty after the options have been applied, and returns a
\* started handler otherwise.
C23_ConstructorError ==
    ehResult # "none" =>
        IF ehOptions.token = <<>> \/ ehOptions.url = <<>>
        THEN ehResult = "error" /\ ehLoopPc = "none"
        ELSE ehResult = "started" /\ ehLoopPc # "none"

\* NewEventHandler has returned an error for options with a URL and no token
C23_Witness ==
    /\ ehResult = "error"
    /\ ehOptions.url = <<"u">> \o EVENTS_PATH
    /\ ehOptions.token = <<>>
    /\ ehLoopPc = "none"

\* the events included in a POST the backend has accepted
PostedEvents ==
    UNION {{ehPosts[i][j].id : j \in 1..Len(ehPosts[i])} :
             i \in 1..Len(ehPosts)}

\* C24: every event for which CaptureError / CaptureMessage returned nil on a
\* handler that is not a noop is eventually included in a POST, unless the
\* backend has rejected a request.
C24_AcceptedEventuallyPosted ==
    \A e \in 1..MaxCaptures :
        (e \in ehAccepted) ~> (e \in PostedEvents \/ ehRejected)

\* C37: a batch whose POST failed is kept: after a transport error or a
\* non-2xx status all its events are still in batchedEvents, in order, and
\* the next POST carries them again, followed by the events received since.
C37_FailedBatchKept ==
    \A i \in 1..Len(ehAttempts) :
        ~ehAttempts[i].ok =>
            IF i < Len(ehAttempts)
            THEN IsPrefix(ehAttempts[i].items, ehAttempts[i + 1].items)
            ELSE IsPrefix(ehAttempts[i].items, batchedEvents)

\* the ticker's POST of one event has failed, and the next ticker fire has
\* sent that event again together with a newer one
C37_Witness ==
    /\ ~ehStop
    /\ Len(ehAttempts) = 2
    /\ ~ehAttempts[1].ok /\ Len(ehAttempts[1].items) = 1
    /\ ehAttempts[2].ok /\ Len(ehAttempts[2].items) = 2
    /\ batchedEvents = <<>>

\* ------------------------------------------------------------------ logger
\* Logger of src/logger.go over an otelLogger that keeps the records it is given
\* (the mockLogger of src/logger_test.go).

\* number of Logger calls in one run
MaxLogCalls == 3

InfoLevel == "INFO"
WarnLevel == "WARN"
ErrorLevel == "ERROR"
DebugLevel == "DEBUG"
\* LogLevel is a string type: the four constants and one value that is none of them
LoggerLevels == {InfoLevel, WarnLevel, ErrorLevel, DebugLevel, "TRACE"}

LoggerMessages == {<<"m">>, <<"n">>}
\* the err argument of Error: nil, or an error with the text "x"
NoError == <<>>
LoggerErrors == {NoError, <<"x">>}
\* LoggerOptions.attributes
LoggerAttributes == {<<>>, <<[key |-> "default", value |-> <<"v">>]>>}

\* getSeverity with WarnLevel in the default case
getSeverity_WarnAsDefault(level) ==
    CASE level = InfoLevel -> "SeverityInfo"
      [] level = ErrorLevel -> "SeverityError"
      [] level = DebugLevel -> "SeverityDebug"
      [] OTHER -> "SeverityInfo"

\* getSeverity
getSeverity(level) ==
    CASE level = InfoLevel -> "SeverityInfo"
      [] level = WarnLevel -> "SeverityWarn"
      [] level = ErrorLevel -> "SeverityError"
      [] level = DebugLevel -> "SeverityDebug"
      [] OTHER -> "SeverityInfo"

\* getCallerAttrs (one attribute stands for the three of the caller)
getCallerAttrs == <<[key |-> "caller.function", value |-> <<"f">>]>>

LoggerInit ==
    /\ otelLogger = "nil"
    /\ lgAttributes = <<>>
    /\ lgPassthrough = FALSE
    /\ records = <<>>
    /\ lgPrinted = <<>>
    /\ lgLast = [method |-> "none", message |-> <<>>, err |-> NoError]
    /\ lgCalls = 0
    /\ lgSeverity = [level |-> "", severity |-> ""]

\* NewLogger: the Logger over the otelLogger of the options, with their
\* attributes and passthrough
NewLogger(attributes, passthrough) ==
    /\ UNCHANGED outsideLogger
    /\ otelLogger = "nil"
    /\ otelLogger' = "mock"
    /\ lgAttributes' = attributes
    /\ lgPassthrough' = passthrough
    /\ UNCHANGED <<records, lgPrinted, lgLast, lgCalls, lgSeverity>>

\* Logger.log: a record with the severity of the level, the message as body,
\* the logger's attributes followed by attrs, and the "error" attribute when
\* err is not nil, handed to otelLogger.Emit
loggerLog(level, message, err, attrs) ==
    LET allAttrs == lgAttributes \o attrs
        withError == IF err # NoError
                     THEN Append(allAttrs, [key |-> "error", value |-> err])
                     ELSE allAttrs IN
      records' = Append(records, [severity |-> getSeverity(level),
                                  body |-> message, attributes |-> withError])

\* Debug / Warn / Info / Error: log at the method's level with the logger's
\* attributes and the caller's, then fmt.Println(message) if passthrough;
\* only Error hands an err to log
LoggerCall(method, level, message, err) ==
    /\ UNCHANGED outsideLogger
    /\ otelLogger = "mock"
    /\ lgCalls < MaxLogCalls
    /\ lgCalls' = lgCalls + 1
    /\ lgLast' = [method |-> method, message |-> message, err |-> err]
    /\ loggerLog(level, message, err, lgAttributes \o getCallerAttrs)
    /\ lgPrinted' = IF lgPassthrough THEN Append(lgPrinted, message) ELSE lgPrinted
    /\ UNCHANGED <<otelLogger, lgAttributes, lgPassthrough, lgSeverity>>

LoggerDebug(message) == LoggerCall("Debug", DebugLevel, message, NoError)
LoggerWarn(message) == LoggerCall("Warn", WarnLevel, message, NoError)
LoggerInfo(message) == LoggerCall("Info", InfoLevel, message, NoError)
LoggerError(message, err) == LoggerCall("Error", ErrorLevel, message, err)

\* getSeverity called on a level, as the package's test does
getSeverityCall(level) ==
    /\ UNCHANGED outsideLogger
    /\ lgSeverity.level # level
    /\ lgSeverity' = [level |-> level, severity |-> getSeverity(level)]
    /\ UNCHANGED <<otelLogger, lgAttributes, lgPassthrough, records, lgPrinted,
                   lgLast, lgCalls>>

LoggerNext ==
    \/ \E attributes \in LoggerAttributes, passthrough \in BOOLEAN :
         NewLogger(attributes, passthrough)
    \/ \E message \in LoggerMessages : LoggerDebug(message)
    \/ \E message \in LoggerMessages : LoggerWarn(message)
    \/ \E message \in LoggerMessages : LoggerInfo(message)
    \/ \E message \in LoggerMessages, err \in LoggerErrors :
         LoggerError(message, err)
    \/ \E level \in LoggerLevels : getSeverityCall(level)

\* ------------------------------------------------------------------ logger claims
\* the severity each method is to log with
SeverityOf(method) ==
    CASE method = "Info" -> "SeverityInfo"
      [] method = "Warn" -> "SeverityWarn"
      [] method = "Error" -> "SeverityError"
      [] method = "Debug" -> "SeverityDebug"

HasAttribute(record, key, value) ==
    \E i \in 1..Len(record.attributes) :
        record.attributes[i] = [key |-> key, value |-> value]

\* C28: a call of Info, Warn, Error or Debug emits exactly one record, with the
\* message as body and the severity of the call's level; Error with an error
\* adds an "error" attribute holding its text; getSeverity maps a level that
\* is none of the four to Info.
C28_OneRecordPerCall ==
    /\ Len(records) = lgCalls
    /\ lgCalls > 0 =>
         LET record == records[Len(records)] IN
           /\ record.body = lgLast.message
           /\ record.severity = SeverityOf(lgLast.method)
           /\ (lgLast.method = "Error" /\ lgLast.err # NoError)
                 => HasAttribute(record, "error", lgLast.err)
    /\ lgSeverity.level \notin {"", InfoLevel, WarnLevel, ErrorLevel, DebugLevel}
         => lgSeverity.severity = "SeverityInfo"

\* a Warn and then an Error with an error have each emitted their record, and
\* getSeverity has been asked for a level that is none of the four
C28_Witness ==
    /\ Len(records) = 2
    /\ records[1].severity = "SeverityWarn"
    /\ lgLast.method = "Error"
    /\ HasAttribute(records[2], "error", <<"x">>)
    /\ lgSeverity.level = "TRACE"

\* ------------------------------------------------------------------ registration
\* end of the attempt loop of one tick, "for i := 1; i < 10; i++"
\* (10 in src/registration.go:103, scaled)
registerLoopEnd == 3
\* number of fires of the registration ticker in one run
MaxTicks == 3

serviceName == <<"s">>
InstanceNumbers == {1, 2}
InstanceIds == {1, 2}
\* registrationResponse
RegistrationResponses ==
    [ServiceInstanceNumber : InstanceNumbers, ServiceInstanceID : InstanceIds]
\* heartbeatResponse (the zero value of the new identity when not reassigned)
HeartbeatResponses ==
    [Reassigned : {TRUE}, NewInstanceNumber : InstanceNumbers,
     NewInstanceID : InstanceIds]
    \cup {[Reassigned |-> FALSE, NewInstanceNumber |-> 0, NewInstanceID |-> 0]}

\* the verb %d of fmt.Sprintf on a non-negative int
Digits == <<"0", "1", "2", "3", "4", "5", "6", "7", "8", "9">>
RECURSIVE Itoa(_)
Itoa(n) ==
    IF n < 10 THEN <<Digits[n + 1]>>
    ELSE Itoa(n \div 10) \o <<Digits[(n % 10) + 1]>>

\* fmt.Sprintf("%s-%d", name, number)
Sprintf(name, number) == name \o <<"-">> \o Itoa(number)

\* sync.RWMutex.RLock proceeds when no writer holds the lock
CanRLock(m) == m = "free"

\* the body of getServiceInstance without the check of h.registered
ServiceInstance_NoCheck(reg, name, number) ==
    [instance |-> Sprintf(name, number), err |-> ""]

\* the body of getServiceInstance: the "not registered" error and the empty
\* string unless h.registered, else "<serviceName>-<instanceNumber>" and nil
ServiceInstance(reg, name, number) ==
    IF ~reg THEN [instance |-> <<>>, err |-> "not registered"]
    ELSE [instance |-> Sprintf(name, number), err |-> ""]

NoResult == [instance |-> <<>>, err |-> "", number |-> 0, id |-> 0,
             registered |-> FALSE, called |-> FALSE]

RegistrationInit ==
    /\ registered = FALSE
    /\ serviceInstanceNumber = 0
    /\ serviceInstanceId = 0
    /\ doneChan = FALSE
    /\ registeredChan = FALSE
    /\ regMux = "free"
    /\ regPc = "init"
    /\ regAttempt = 0
    /\ regResponse = Nil
    /\ regTicks = 0
    /\ regStopPc = "idle"
    /\ waitPc = "idle"
    /\ ctxDone = FALSE
    /\ getResult = NoResult
    /\ getSeq = 0
    /\ assigned = <<>>
    /\ deregCalls = 0

\* registrationHandler.start: wg.Add(1); go h.runRegistration()
RegistrationStart ==
    /\ UNCHANGED outsideRegistration
    /\ regPc = "init"
    /\ regPc' = "select"
    /\ UNCHANGED <<registered, serviceInstanceNumber, serviceInstanceId,
                   doneChan, registeredChan, regMux, regAttempt, regResponse,
                   regTicks, regStopPc, waitPc, ctxDone, getResult, getSeq,
                   assigned, deregCalls>>

\* runRegistration, "case <-ticker.C": register if !h.registered, else heartbeat
runRegistrationTick ==
    /\ UNCHANGED outsideRegistration
    /\ regPc = "select"
    /\ regTicks < MaxTicks
    /\ regTicks' = regTicks + 1
    /\ IF ~registered
       THEN regPc' = "register" /\ regAttempt' = 1
       ELSE regPc' = "heartbeat" /\ UNCHANGED regAttempt
    /\ UNCHANGED <<registered, serviceInstanceNumber, serviceInstanceId,
                   doneChan, registeredChan, regMux, regResponse, regStopPc,
                   waitPc, ctxDone, getResult, getSeq, assigned, deregCalls>>

\* runRegistration, "case <-h.doneChan": return (wg.Done)
runRegistrationDone ==
    /\ UNCHANGED outsideRegistration
    /\ regPc = "select"
    /\ doneChan
    /\ regPc' = "done"
    /\ UNCHANGED <<registered, serviceInstanceNumber, serviceInstanceId,
                   doneChan, registeredChan, regMux, regAttempt, regResponse,
                   regTicks, regStopPc, waitPc, ctxDone, getResult, getSeq,
                   assigned, deregCalls>>

\* register, up to h.mux.Lock(): the request fails (the error is returned and
\* the loop sleeps) or its response arrives and the lock is taken
register(ok, response) ==
    /\ UNCHANGED outsideRegistration
    /\ regPc = "register"
    /\ IF ~ok
       THEN /\ regPc' = "sleep"
            /\ UNCHANGED <<regMux, regResponse>>
       ELSE /\ regMux = "free"
            /\ regMux' = "loop"
            /\ regResponse' = response
            /\ regPc' = "registerLocked"
    /\ UNCHANGED <<registered, serviceInstanceNumber, serviceInstanceId,
                   doneChan, registeredChan, regAttempt, regTicks, regStopPc,
                   waitPc, ctxDone, getResult, getSeq, assigned, deregCalls>>

\* the critical section of register without close(h.registeredChan)
registerCritical_NoSignal ==
    /\ UNCHANGED outsideRegistration
    /\ regPc = "registerLocked"
    /\ IF ~registered
       THEN /\ serviceInstanceNumber' = regResponse.ServiceInstanceNumber
            /\ serviceInstanceId' = regResponse.ServiceInstanceID
            /\ registered' = TRUE
            /\ UNCHANGED registeredChan
            /\ assigned' = Append(assigned,
                 [number |-> regResponse.ServiceInstanceNumber,
                  id |-> regResponse.ServiceInstanceID])
       ELSE UNCHANGED <<serviceInstanceNumber, serviceInstanceId, registered,
                        registeredChan, assigned>>
    /\ regMux' = "free"
    /\ regResponse' = Nil
    /\ regPc' = "select"
    /\ UNCHANGED <<doneChan, regAttempt, regTicks, regStopPc, waitPc, ctxDone,
                   getResult, getSeq, deregCalls>>

\* the critical section of register: if !h.registered, store the identity, set
\* registered and close registeredChan; Unlock; the loop breaks out of the
\* attempts (err == nil) and goes back to its select
registerCritical ==
    /\ UNCHANGED outsideRegistration
    /\ regPc = "registerLocked"
    /\ IF ~registered
       THEN /\ serviceInstanceNumber' = regResponse.ServiceInstanceNumber
            /\ serviceInstanceId' = regResponse.ServiceInstanceID
            /\ registered' = TRUE
            /\ registeredChan' = TRUE
            /\ assigned' = Append(assigned,
                 [number |-> regResponse.ServiceInstanceNumber,
                  id |-> regResponse.ServiceInstanceID])
       ELSE UNCHANGED <<serviceInstanceNumber, serviceInstanceId, registered,
                        registeredChan, assigned>>
    /\ regMux' = "free"
    /\ regResponse' = Nil
    /\ regPc' = "select"
    /\ UNCHANGED <<doneChan, regAttempt, regTicks, regStopPc, waitPc, ctxDone,
                   getResult, getSeq, deregCalls>>

\* after a failed attempt: time.Sleep, i++, and either the next attempt or,
\* the attempts of the tick being used up, "if err != nil { return }"
runRegistrationSleep ==
    /\ UNCHANGED outsideRegistration
    /\ regPc = "sleep"
    /\ IF regAttempt + 1 < registerLoopEnd
       THEN regAttempt' = regAttempt + 1 /\ regPc' = "register"
       ELSE UNCHANGED regAttempt /\ regPc' = "done"
    /\ UNCHANGED <<registered, serviceInstanceNumber, serviceInstanceId,
                   doneChan, registeredChan, regMux, regResponse, regTicks,
                   regStopPc, waitPc, ctxDone, getResult, getSeq, assigned,
                   deregCalls>>

\* heartbeat without h.mux.Lock()
heartbeatLock_Missing == "free"
\* h.mux after h.mux.Lock() in heartbeat: held by the loop
heartbeatLock == "loop"

\* heartbeat, up to h.mux.Lock(): the request fails (return) or its response
\* arrives and the lock is taken
heartbeat(ok, response) ==
    /\ UNCHANGED outsideRegistration
    /\ regPc = "heartbeat"
    /\ IF ~ok
       THEN /\ regPc' = "select"
            /\ UNCHANGED <<regMux, regResponse>>
       ELSE /\ regMux = "free"
            /\ regMux' = heartbeatLock
            /\ regResponse' = response
            /\ regPc' = "heartbeatLocked"
    /\ UNCHANGED <<registered, serviceInstanceNumber, serviceInstanceId,
                   doneChan, registeredChan, regAttempt, regTicks, regStopPc,
                   waitPc, ctxDone, getResult, getSeq, assigned, deregCalls>>

\* heartbeat in the lock with h.registered = response.Reassigned where the
\* code returns
heartbeatNumber_ClearsFlag ==
    /\ UNCHANGED outsideRegistration
    /\ regPc = "heartbeatLocked"
    /\ IF ~regResponse.Reassigned
       THEN /\ regMux' = "free"
            /\ regResponse' = Nil
            /\ regPc' = "select"
            /\ registered' = FALSE
            /\ UNCHANGED serviceInstanceNumber
       ELSE /\ serviceInstanceNumber' = regResponse.NewInstanceNumber
            /\ regPc' = "heartbeatHalf"
            /\ UNCHANGED <<regMux, regResponse, registered>>
    /\ UNCHANGED <<serviceInstanceId, doneChan, registeredChan,
                   regAttempt, regTicks, regStopPc, waitPc, ctxDone, getResult,
                   getSeq, assigned, deregCalls>>

\* heartbeat in the lock: return if !response.Reassigned, else
\* h.serviceInstanceNumber = response.NewInstanceNumber
heartbeatNumber ==
    /\ UNCHANGED outsideRegistration
    /\ regPc = "heartbeatLocked"
    /\ IF ~regResponse.Reassigned
       THEN /\ regMux' = "free"
            /\ regResponse' = Nil
            /\ regPc' = "select"
            /\ UNCHANGED serviceInstanceNumber
       ELSE /\ serviceInstanceNumber' = regResponse.NewInstanceNumber
            /\ regPc' = "heartbeatHalf"
            /\ UNCHANGED <<regMux, regResponse>>
    /\ UNCHANGED <<registered, serviceInstanceId, doneChan, registeredChan,
                   regAttempt, regTicks, regStopPc, waitPc, ctxDone, getResult,
                   getSeq, assigned, deregCalls>>

\* heartbeat in the lock: h.serviceInstanceId = response.NewInstanceID;
\* h.registered = true; Unlock
heartbeatId ==
    /\ UNCHANGED outsideRegistration
    /\ regPc = "heartbeatHalf"
    /\ serviceInstanceId' = regResponse.NewInstanceID
    /\ registered' = TRUE
    /\ assigned' = Append(assigned, [number |-> regResponse.NewInstanceNumber,
                                     id |-> regResponse.NewInstanceID])
    /\ regMux' = "free"
    /\ regResponse' = Nil
    /\ regPc' = "select"
    /\ UNCHANGED <<serviceInstanceNumber, doneChan, registeredChan, regAttempt,
                   regTicks, regStopPc, waitPc, ctxDone, getResult, getSeq,
                   deregCalls>>

\* getServiceInstance: RLock, the check of h.registered, Sprintf, RUnlock
getServiceInstance ==
    /\ UNCHANGED outsideRegistration
    /\ CanRLock(regMux)
    /\ LET r == ServiceInstance(registered, serviceName, serviceInstanceNumber) IN
         getResult' = [instance |-> r.instance, err |-> r.err,
                       number |-> serviceInstanceNumber,
                       id |-> serviceInstanceId, registered |-> registered,
                       called |-> TRUE]
    /\ getSeq' = 1 - getSeq
    /\ UNCHANGED <<registered, serviceInstanceNumber, serviceInstanceId,
                   doneChan, registeredChan, regMux, regPc, regAttempt,
                   regResponse, regTicks, regStopPc, waitPc, ctxDone, assigned,
                   deregCalls>>

\* waitForRegistration, up to the select: read h.registered under RLock and
\* return nil if it is set
waitForRegistration ==
    /\ UNCHANGED outsideRegistration
    /\ waitPc = "idle"
    /\ CanRLock(regMux)
    /\ waitPc' = IF registered THEN "returnedNil" ELSE "select"
    /\ UNCHANGED <<registered, serviceInstanceNumber, serviceInstanceId,
                   doneChan, registeredChan, regMux, regPc, regAttempt,
                   regResponse, regTicks, regStopPc, ctxDone, getResult, getSeq,
                   assigned, deregCalls>>

\* waitForRegistration, "case <-h.registeredChan": return nil
waitForRegistrationSignalled ==
    /\ UNCHANGED outsideRegistration
    /\ waitPc = "select"
    /\ registeredChan
    /\ waitPc' = "signalledNil"
    /\ UNCHANGED <<registered, serviceInstanceNumber, serviceInstanceId,
                   doneChan, registeredChan, regMux, regPc, regAttempt,
                   regResponse, regTicks, regStopPc, ctxDone, getResult, getSeq,
                   assigned, deregCalls>>

\* waitForRegistration, "case <-ctx.Done()": return ctx.Err()
waitForRegistrationCancelled ==
    /\ UNCHANGED outsideRegistration
    /\ waitPc = "select"
    /\ ctxDone
    /\ waitPc' = "returnedErr"
    /\ UNCHANGED <<registered, serviceInstanceNumber, serviceInstanceId,
                   doneChan, registeredChan, regMux, regPc, regAttempt,
                   regResponse, regTicks, regStopPc, ctxDone, getResult, getSeq,
                   assigned, deregCalls>>

\* the caller of waitForRegistration cancels its context
ctxCancel ==
    /\ UNCHANGED outsideRegistration
    /\ ~ctxDone
    /\ ctxDone' = TRUE
    /\ UNCHANGED <<registered, serviceInstanceNumber, serviceInstanceId,
                   doneChan, registeredChan, regMux, regPc, regAttempt,
                   regResponse, regTicks, regStopPc, waitPc, getResult, getSeq,
                   assigned, deregCalls>>

\* registrationHandler.stop: close(h.doneChan), then h.wg.Wait()
RegistrationStop ==
    /\ UNCHANGED outsideRegistration
    /\ regStopPc = "idle"
    /\ regPc # "init"
    /\ doneChan' = TRUE
    /\ regStopPc' = "wait"
    /\ UNCHANGED <<registered, serviceInstanceNumber, serviceInstanceId,
                   registeredChan, regMux, regPc, regAttempt, regResponse,
                   regTicks, waitPc, ctxDone, getResult, getSeq, assigned,
                   deregCalls>>

\* registrationHandler.stop once wg.Wait has returned: deregister, which sends
\* the request and returns if it failed, else clears the identity in the lock
deregister(ok) ==
    /\ UNCHANGED outsideRegistration
    /\ regStopPc = "wait"
    /\ regPc = "done"
    /\ deregCalls' = deregCalls + 1
    /\ regStopPc' = "returned"
    /\ IF ~ok
       THEN UNCHANGED <<registered, serviceInstanceNumber, serviceInstanceId>>
       ELSE /\ regMux = "free"
            /\ registered' = FALSE
            /\ serviceInstanceNumber' = 0
            /\ serviceInstanceId' = 0
    /\ UNCHANGED <<doneChan, registeredChan, regMux, regPc, regAttempt,
                   regResponse, regTicks, waitPc, ctxDone, getResult, getSeq,
                   assigned>>

RegistrationNext ==
    \/ RegistrationStart
    \/ runRegistrationTick
    \/ runRegistrationDone
    \/ \E ok \in BOOLEAN, response \in RegistrationResponses :
         register(ok, response)
    \/ registerCritical
    \/ runRegistrationSleep
    \/ \E ok \in BOOLEAN, response \in HeartbeatResponses :
         heartbeat(ok, response)
    \/ heartbeatNumber
    \/ heartbeatId
    \/ getServiceInstance
    \/ waitForRegistration
    \/ waitForRegistrationSignalled
    \/ waitForRegistrationCancelled
    \/ ctxCancel
    \/ RegistrationStop
    \/ \E ok \in BOOLEAN : deregister(ok)

\* ------------------------------------------------------------------ registration claims
\* the identity the handler holds
Identity == [number |-> serviceInstanceNumber, id |-> serviceInstanceId]

\* C14: a heartbeat reassignment replaces instance number and instance ID in
\* one critical section: a getServiceInstance call that found the handler
\* registered saw an identity the backend assigned, number and ID of the same
\* response, and whenever the lock is free the handler holds the identity of
\* the last response stored, so every later call observes the new identity.
C14_HeartbeatReassignmentAtomic ==
    /\ (getResult.called /\ getResult.registered) =>
         /\ [number |-> getResult.number, id |-> getResult.id] \in Range(assigned)
         /\ getResult.instance = Sprintf(serviceName, getResult.number)
    /\ (regMux = "free" /\ registered) => Identity = assigned[Len(assigned)]

\* a getServiceInstance call has observed the identity of a reassignment that
\* changed both the number and the ID
C14_Witness ==
    /\ Len(assigned) >= 2
    /\ assigned[2].number # assigned[1].number
    /\ assigned[2].id # assigned[1].id
    /\ getResult.called /\ getResult.registered
    /\ [number |-> getResult.number, id |-> getResult.id] = assigned[2]

\* C15: when every attempt of a tick fails the handler gives up for that tick
\* only: the registration loop ends only because stop() closed doneChan.
C15_GivesUpOnlyForTheTick ==
    regPc = "done" => doneChan

\* C16: waitForRegistration has returned nil only if a registration has
\* succeeded, has returned the context error only if the context was
\* cancelled, keeps blocking while neither holds, and, once a registration has
\* succeeded, a caller that is in the select can return nil (the signal is not
\* missed when it fires between the check of the flag and the wait).
C16_WaitForRegistration ==
    /\ waitPc \in {"returnedNil", "signalledNil"} => assigned # <<>>
    /\ waitPc = "returnedErr" => ctxDone
    /\ (waitPc = "select" /\ assigned = <<>> /\ ~ctxDone) =>
         /\ ~ENABLED waitForRegistrationSignalled
         /\ ~ENABLED waitForRegistrationCancelled
    /\ (waitPc = "select" /\ assigned # <<>>) =>
         ENABLED waitForRegistrationSignalled

\* the caller found the flag unset, the registration succeeded afterwards, and
\* the caller returned nil from the select
C16_Witness ==
    waitPc = "signalledNil" /\ assigned # <<>>

\* C17: a getServiceInstance call made before the first successful
\* registration returns the "not registered" error and the empty string, a
\* call made while the handler is registered returns
\* "<serviceName>-<instanceNumber>" and a nil error, and no call changes the
\* state of the handler.
C17_GetServiceInstance ==
    [][(getSeq' # getSeq) =>
         /\ assigned = <<>> =>
              getResult'.instance = <<>> /\ getResult'.err = "not registered"
         /\ registered =>
              /\ getResult'.instance =
                   serviceName \o <<"-">> \o Itoa(serviceInstanceNumber)
              /\ getResult'.err = ""
         /\ UNCHANGED <<registered, serviceInstanceNumber, serviceInstanceId,
                        doneChan, registeredChan, regMux>>]_vars

\* both cases have happened: the last call returned "s-2" and nil
C17_Witness ==
    /\ getResult.called
    /\ getResult.instance = <<"s", "-", "2">>
    /\ getResult.err = ""
    /\ registered /\ serviceInstanceNumber = 2

\* C18: when stop() has returned, the loop has ended, one deregistration call
\* has been sent and the local identity is cleared: registered false, instance
\* number 0, nil instance ID.
C18_StopClearsIdentity ==
    regStopPc = "returned" =>
        /\ regPc = "done"
        /\ deregCalls = 1
        /\ ~registered
        /\ serviceInstanceNumber = 0
        /\ serviceInstanceId = 0

\* C29: once the handler is registered no heartbeat outcome sets it back to
\* unregistered: the only step that turns the registered flag from true to
\* false is deregister() in stop().
C29_UnregisteredOnlyByDeregister ==
    [][(registered /\ ~registered') =>
          (regStopPc = "wait" /\ regStopPc' = "returned")]_vars

\* the handler registered on the first tick, every later tick was a heartbeat,
\* one of them a reassignment, and the handler is still registered
C29_Witness ==
    /\ registered
    /\ regPc = "select"
    /\ regTicks = MaxTicks
    /\ Len(assigned) = 2

\* ------------------------------------------------------------------ specifications
Init ==
    /\ BatcherInit /\ CollectorInit /\ RegistrationInit /\ SenderInit
    /\ BucketInit /\ AgentInitState /\ EventInit /\ LoggerInit

SpecBatcher == Init /\ [][BatcherNext]_vars

SpecCollector == Init /\ [][CollectorNext]_vars

SpecReset == Init /\ [][ResetNext]_vars

SpecIdentity == Init /\ [][IdentityNext]_vars

SpecRegistration == Init /\ [][RegistrationNext]_vars

SpecSender == Init /\ [][SenderNext]_vars

SpecSenderDrain == Init /\ [][SenderDrainNext]_vars

SpecSenderGo == Init /\ [][SenderGoNext]_vars

SpecBuckets == Init /\ [][BucketNext]_vars

SpecReplacing == Init /\ [][ReplacingNext]_vars

SpecAgent == Init /\ [][AgentNext]_vars

SpecEvents == Init /\ [][EventNext]_vars

SpecLogger == Init /\ [][LoggerNext]_vars

\* the goroutine of start is scheduled: a step of it that stays possible is
\* taken (the ticker keeps firing, a ready select case is chosen)
SpecEventsFair == SpecEvents /\ WF_vars(EventLoop)

====
